---- MODULE Spec2Model ----
(***************************************************************************)
(* Model of the MovingSimulation robot simulator: the kinematics core      *)
(* (robot_kinematics.py), the trajectory validation and goal-directed run  *)
(* of the GUI object (main.py) and the helpers they call (utils.py,        *)
(* visualization.py).                                                      *)
(*                                                                         *)
(* Number representation (fixed point, all integers):                      *)
(*   angles   : "ticks" of 1/n_steps degree (0.025 deg), so that the       *)
(*              40-step interpolation of whole-degree angles is exact;     *)
(*              the code's radians and its float degrees are both ticks    *)
(*   DH table : a, d in whole cm; alpha, theta offset in whole degrees     *)
(*   lengths  : "units" of 0.1 mm (1e-4 m) inside the core                 *)
(*   sin, cos : scaled by TrigScale                                        *)
(***************************************************************************)
EXTENDS Integers, Sequences, FiniteSets, TLC

VARIABLES
    call,                 \* the last call made into the core: name and arguments
    ret,                  \* what that call returned (or the exception it raised)
    robot_type,           \* "Forward" or "Inverse"
    current_dof,
    dh_entries,           \* the DH table shown in the entries (get_current_dh_params)
    joint_angles,         \* self.joint_angles
    target_pos_entries,   \* the three target entries: a number or some other text
    ik_solutions,
    selected_ik_solution, \* index into ik_solutions, from 0
    simulation_running,
    controls_enabled,     \* the state enable_controls left the control widgets in
    animation,            \* the pending root.after(100, animate_step(step)) timer
    run_log,              \* the phases the latest goal-directed run went through
    target_position,      \* self.target_position, whole cm
    simulation_state,     \* is_first_run and last_target_position of the dictionary
    last_message,         \* the latest status message: the warning of a run request
                          \* made during a run, another message, or none so far
    button_pressed,       \* self.button_pressed, for joint 0 and for "dh_0_alpha"
    button_press_count,   \* self.button_press_count["dh_0_alpha"]
    joint_timers,         \* pending root.after(100, continuous_button_press(0, direction))
    dh_timers,            \* pending root.after(.., continuous_dh_button_press(0, 'alpha', step))
    mouse,                \* the press-and-hold button the mouse button is down on
    button_calls,         \* how many times the press-and-hold handlers have run
    L_vars,               \* inverseKinemaitcs.py: the DoubleVars of the three length entries
    last_valid_L_values,  \* RobotArmGUI._last_valid_L_values
    entry_focus,          \* the length entry holding the keyboard focus, 0 for none
    after_id,             \* the length button held down and whether RobotArmGUI._after_id
                          \* holds its repeat timer
    arm_calls             \* how many times increment_value_gui has run

coreVars == <<call, ret>>

guiVars ==
    <<robot_type, current_dof, dh_entries, joint_angles, target_pos_entries,
      ik_solutions, selected_ik_solution, simulation_running, controls_enabled,
      animation, run_log, target_position, simulation_state, last_message>>

buttonVars ==
    <<button_pressed, button_press_count, joint_timers, dh_timers, mouse, button_calls>>

armVars == <<L_vars, last_valid_L_values, entry_focus, after_id, arm_calls>>

vars == <<coreVars, guiVars, buttonVars, armVars>>

(***************************************************************************)
(* Arithmetic helpers                                                      *)
(***************************************************************************)
TrigScale == 100 * 100

\* nearest integer to x / s (s > 0)
RDiv(x, s) == (2 * x + s) \div (2 * s)

Abs(x) == IF x < 0 THEN -x ELSE x

Min(a, b) == IF a < b THEN a ELSE b

Max(a, b) == IF a < b THEN b ELSE a

\* n_steps of plan_path_to_goal; also the number of angle ticks in one degree
n_steps == 40

TicksPerDeg == n_steps

\* np.radians on a DH-table angle given in whole degrees
Radians(deg) == deg * TicksPerDeg

\* a length of the DH table (cm) in core units (the code divides by 100 to get m)
CmToUnits(cm) == cm * 100

\* sin of whole degrees 0..90, scaled by TrigScale
SinTable ==
    << 0, 175, 349, 523, 698, 872, 1045, 1219, 1392, 1564, 1736, 1908, 2079, 2250, 2419,
       2588, 2756, 2924, 3090, 3256, 3420, 3584, 3746, 3907, 4067, 4226, 4384, 4540, 4695,
       4848, 5000, 5150, 5299, 5446, 5592, 5736, 5878, 6018, 6157, 6293, 6428, 6561, 6691,
       6820, 6947, 7071, 7193, 7314, 7431, 7547, 7660, 7771, 7880, 7986, 8090, 8192, 8290,
       8387, 8480, 8572, 8660, 8746, 8829, 8910, 8988, 9063, 9135, 9205, 9272, 9336, 9397,
       9455, 9511, 9563, 9613, 9659, 9703, 9744, 9781, 9816, 9848, 9877, 9903, 9925, 9945,
       9962, 9976, 9986, 9994, 9998, 10000 >>

SinDeg(d) ==
    LET m == d % 360
        sign == IF m <= 180 THEN 1 ELSE -1
        index == IF m <= 90 THEN m
                 ELSE IF m <= 180 THEN 180 - m
                 ELSE IF m <= 270 THEN m - 180
                 ELSE 360 - m
    IN  sign * SinTable[index + 1]

\* np.sin of an angle in ticks: the table, linearly interpolated inside a degree
Sin(x) ==
    LET m == x % (360 * TicksPerDeg)
        d == m \div TicksPerDeg
        f == m % TicksPerDeg
        Interpolate(s) ==
            IF f = 0 THEN s[0] ELSE s[0] + RDiv((s[1] - s[0]) * f, TicksPerDeg)
    IN  Interpolate([k \in 0..1 |-> SinDeg(d + k)])

Cos(x) == Sin(x + 90 * TicksPerDeg)

(***************************************************************************)
(* Homogeneous transforms: [R |-> 3x3 rotation scaled by TrigScale,        *)
(*                          p |-> position in units]                       *)
(***************************************************************************)
Eye4 ==
    [R |-> << <<TrigScale, 0, 0>>, <<0, TrigScale, 0>>, <<0, 0, TrigScale>> >>,
     p |-> <<0, 0, 0>>]

\* np.dot(A, B) of two 4x4 homogeneous transforms
Dot4(A, B) ==
    [R |-> [i \in 1..3 |-> [j \in 1..3 |->
              RDiv(A.R[i][1] * B.R[1][j] + A.R[i][2] * B.R[2][j] + A.R[i][3] * B.R[3][j],
                   TrigScale)]],
     p |-> [i \in 1..3 |->
              A.p[i] + RDiv(A.R[i][1] * B.p[1] + A.R[i][2] * B.p[2] + A.R[i][3] * B.p[3],
                            TrigScale)]]

\* RobotKinematics.dh_transform_matrix(a, alpha, d, theta): a, d in cm, angles in ticks
dh_transform_matrix(a, alpha, d, theta) ==
    LET a_m == CmToUnits(a)
        d_m == CmToUnits(d)
        T(ct, st, ca, sa) ==
            [R |-> << <<ct, -RDiv(st * ca, TrigScale), RDiv(st * sa, TrigScale)>>,
                      <<st, RDiv(ct * ca, TrigScale), -RDiv(ct * sa, TrigScale)>>,
                      <<0, sa, ca>> >>,
             p |-> <<RDiv(a_m * ct, TrigScale), RDiv(a_m * st, TrigScale), d_m>>]
    IN  T(Cos(theta), Sin(theta), Cos(alpha), Sin(alpha))

\* the transform of link i (1-based) of the chain at joint angle q
LinkTransform(dh_param, joint_angle) ==
    dh_transform_matrix(dh_param[1], Radians(dh_param[2]), dh_param[3],
                        joint_angle + Radians(dh_param[4]))

\* the number of pairs zip(dh_params, joint_angles_rad) yields
ZipLen(dh_params, joint_angles_rad) == Min(Len(dh_params), Len(joint_angles_rad))

\* the cumulative transforms of the loop over zip(dh_params, joint_angles_rad): the
\* identity, then T_cumulative after each of the first n links
RECURSIVE TransformChain(_, _, _)
TransformChain(dh_params, joint_angles_rad, n) ==
    IF n = 0 THEN <<Eye4>>
    ELSE LET prev == TransformChain(dh_params, joint_angles_rad, n - 1)
         IN  Append(prev, Dot4(prev[n], LinkTransform(dh_params[n], joint_angles_rad[n])))

\* RobotKinematics.get_transformation_matrices
get_transformation_matrices(dh_params, joint_angles_rad) ==
    TransformChain(dh_params, joint_angles_rad, ZipLen(dh_params, joint_angles_rad))

\* RobotKinematics.forward_kinematics: no length check, the loop runs over the zip
forward_kinematics(dh_params, joint_angles_rad) ==
    LET T_cumulative(chain) == chain[Len(chain)]
    IN  T_cumulative(get_transformation_matrices(dh_params, joint_angles_rad))

\* RobotVisualizer.compute_link_positions: the base and the end of every zipped link
compute_link_positions(dh_params, joint_angles_rad) ==
    LET positions(chain) == [k \in 1..Len(chain) |-> chain[k].p]
    IN  positions(get_transformation_matrices(dh_params, joint_angles_rad))

(***************************************************************************)
(* Joint limits, angle helpers                                             *)
(***************************************************************************)
\* RobotKinematics.joint_limits with the default of get_joint_limits; 0-based joint
\* index, whole degrees
get_joint_limits(joint_index) ==
    CASE joint_index = 0 -> <<-180, 180>>
      [] joint_index = 1 -> <<-135, 135>>
      [] joint_index = 2 -> <<-90, 90>>
      [] joint_index = 3 -> <<-180, 180>>
      [] joint_index = 4 -> <<-120, 120>>
      [] joint_index = 5 -> <<-180, 180>>
      [] OTHER -> <<-180, 180>>

\* a limit check that forgets the lower limit
OutsideLimitsUpperOnly(angle, joint_index) ==
    angle > Radians(get_joint_limits(joint_index)[2])

\* angle_deg < min_limit or angle_deg > max_limit, for an angle in ticks
OutsideLimits(angle, joint_index) ==
    LET lim == get_joint_limits(joint_index)
    IN  angle < Radians(lim[1]) \/ angle > Radians(lim[2])

\* the first joint (1-based) of the vector that is outside its limits, 0 when none is
FirstJointOutside(joint_angles_rad) ==
    LET First(bad) == IF bad = {} THEN 0 ELSE CHOOSE j \in bad : \A k \in bad : j <= k
    IN  First({j \in 1..Len(joint_angles_rad) :
                 OutsideLimits(joint_angles_rad[j], j - 1)})

\* Utils.normalize_angle(angle) with the default range (-pi, pi): both ends are kept
RECURSIVE normalize_angle(_)
normalize_angle(angle) ==
    IF angle > Radians(180) THEN normalize_angle(angle - Radians(360))
    ELSE IF angle < Radians(-180) THEN normalize_angle(angle + Radians(360))
    ELSE angle

\* diff = self.normalize_angle(angle2 - angle1) of interpolate_angles
WrappedDifference(angle1, angle2) == normalize_angle(angle2 - angle1)

\* Utils.interpolate_angles(angle1, angle2, t) with t = i / n
interpolate_angles(angle1, angle2, i, n) ==
    normalize_angle(angle1 + RDiv(i * normalize_angle(angle2 - angle1), n))

(***************************************************************************)
(* Singularity check.  The Jacobian's determinant and condition number are *)
(* numpy results; they enter as values det (in 1e-7) and cond, and the     *)
(* thresholds are applied to them as check_singularity does.               *)
(***************************************************************************)
singularity_threshold == 10

condition_number_threshold == 100

\* compute_jacobian indexes dh_params[i] for every joint angle: IndexError when the
\* joint vector is longer than the chain
compute_jacobian_raises(dh_params, joint_angles_rad) == Len(joint_angles_rad) > Len(dh_params)

check_singularity(jac) ==
    [is_singular |-> \/ Abs(jac.det) < singularity_threshold
                     \/ jac.cond > condition_number_threshold,
     determinant |-> jac.det,
     condition_number |-> jac.cond]

(***************************************************************************)
(* Trajectory validation and path planning (main.py)                       *)
(***************************************************************************)
\* z_pos_m < -0.02, in units of 0.1 mm
GroundThreshold == -200

\* the link positions of the step that lie below the ground threshold (indices)
BelowGround(link_positions) ==
    {k \in 1..Len(link_positions) : link_positions[k][3] < GroundThreshold}

NoReason == [kind |-> "none"]

\* a loop body in which a step reported singular fails the validation
StepCheckSingularBlocks(dh_params, q, jacInfo, i) ==
    LET Check(badJoint, link_positions, low, singular) ==
            IF badJoint # 0
            THEN [fail |-> TRUE,
                  reason |-> [kind |-> "joint_limit", joint |-> badJoint, step |-> i,
                              angle |-> q[badJoint]],
                  warn |-> FALSE]
            ELSE IF low # {}
            THEN [fail |-> TRUE,
                  reason |-> [kind |-> "ground", step |-> i,
                              z |-> link_positions
                                      [CHOOSE k \in low : \A m \in low : k <= m][3]],
                  warn |-> FALSE]
            ELSE [fail |-> singular,
                  reason |-> IF singular THEN [kind |-> "singular", step |-> i]
                             ELSE NoReason,
                  warn |-> singular]
        Positions(link_positions) ==
            Check(FirstJointOutside(q), link_positions, BelowGround(link_positions),
                  /\ ~compute_jacobian_raises(dh_params, q)
                  /\ check_singularity(jacInfo).is_singular)
    IN  Positions(compute_link_positions(dh_params, q))

\* one pass of the loop body of validate_trajectory_path on step i (numbered from 1,
\* as in the reason text "step i+1"): the hard checks in the code's order, then the
\* singularity check inside its own try/except; jacInfo is the Jacobian analysis
StepCheck(dh_params, q, jacInfo, i) ==
    LET Check(badJoint, link_positions, low) ==
            IF badJoint # 0
            THEN [fail |-> TRUE,
                  reason |-> [kind |-> "joint_limit", joint |-> badJoint, step |-> i,
                              angle |-> q[badJoint]],
                  warn |-> FALSE]
            ELSE IF low # {}
            THEN [fail |-> TRUE,
                  reason |-> [kind |-> "ground", step |-> i,
                              z |-> link_positions
                                      [CHOOSE k \in low : \A m \in low : k <= m][3]],
                  warn |-> FALSE]
            ELSE [fail |-> FALSE,
                  reason |-> NoReason,
                  warn |-> /\ ~compute_jacobian_raises(dh_params, q)
                           /\ check_singularity(jacInfo).is_singular]
        Positions(link_positions) ==
            Check(FirstJointOutside(q), link_positions, BelowGround(link_positions))
    IN  Positions(compute_link_positions(dh_params, q))

\* RobotSimulationGUI.validate_trajectory_path from step i on: return at the first
\* failing step, otherwise collect the step's warning and go on
RECURSIVE ValidateFrom(_, _, _, _, _)
ValidateFrom(trajectory, dh_params, jac, i, warnings) ==
    IF i > Len(trajectory)
    THEN [valid |-> TRUE, reason |-> NoReason, warnings |-> warnings]
    ELSE
      LET After(step) ==
              IF step.fail
              THEN [valid |-> FALSE, reason |-> step.reason, warnings |-> warnings]
              ELSE ValidateFrom(trajectory, dh_params, jac, i + 1,
                                IF step.warn THEN Append(warnings, i) ELSE warnings)
      IN  After(StepCheck(dh_params, trajectory[i], jac[i], i))

validate_trajectory_path(trajectory, dh_params, jac) ==
    ValidateFrom(trajectory, dh_params, jac, 1, <<>>)

\* a trajectory that stops one step before the target
PlannedTrajectoryOpenEnd(start_angles, target_angles) ==
    [k \in 1..n_steps |->
        [j \in 1..Len(start_angles) |->
            interpolate_angles(start_angles[j], target_angles[j], k - 1, n_steps)]]

\* the trajectory plan_path_to_goal interpolates: n_steps + 1 joint vectors
PlannedTrajectory(start_angles, target_angles) ==
    [k \in 1..(n_steps + 1) |->
        [j \in 1..Len(start_angles) |->
            interpolate_angles(start_angles[j], target_angles[j], k - 1, n_steps)]]

\* a planner that returns the interpolated path whatever the validation said
plan_path_unvalidated(plan, jac) ==
    IF Len(plan.target_angles) < Len(plan.start_angles)
    THEN [success |-> FALSE, reason |-> [kind |-> "error"], trajectory |-> <<>>]
    ELSE [success |-> TRUE,
          trajectory |-> PlannedTrajectory(plan.start_angles, plan.target_angles),
          end_effector_path |-> <<>>,
          warnings |-> <<>>]

\* RobotSimulationGUI.plan_path_to_goal: the dictionary it returns
plan_path_to_goal(plan, jac) ==
    IF Len(plan.target_angles) < Len(plan.start_angles)
    THEN \* target_angles[j] raises IndexError, caught by the handler's except
         [success |-> FALSE, reason |-> [kind |-> "error"], trajectory |-> <<>>]
    ELSE
      LET Result(trajectory, validation_result) ==
              IF validation_result.valid
              THEN [success |-> TRUE,
                    trajectory |-> trajectory,
                    end_effector_path |->
                        [k \in 1..Len(trajectory) |->
                            forward_kinematics(plan.dh_params, trajectory[k]).p],
                    warnings |-> validation_result.warnings]
              ELSE [success |-> FALSE,
                    reason |-> validation_result.reason,
                    trajectory |-> <<>>]
          Validate(trajectory) ==
              Result(trajectory, validate_trajectory_path(trajectory, plan.dh_params, jac))
      IN  Validate(PlannedTrajectory(plan.start_angles, plan.target_angles))

(***************************************************************************)
(* Inverse kinematics (robot_kinematics.py)                                *)
(***************************************************************************)
None == [kind |-> "None"]

Solution(q) == [kind |-> "solution", q |-> q]

Raised(exc) == [kind |-> "raise", exc |-> exc]

\* target_orientation = None
NoOrientation == <<>>

Mat3Mul(A, B) ==
    [i \in 1..3 |-> [j \in 1..3 |->
        RDiv(A[i][1] * B[1][j] + A[i][2] * B[2][j] + A[i][3] * B[3][j], TrigScale)]]

\* RobotKinematics.create_target_transform_matrix: position in units, orientation
\* None or <<roll, pitch, yaw>> in ticks, R = Rz(yaw) Ry(pitch) Rx(roll)
create_target_transform_matrix(position, orientation) ==
    IF orientation = NoOrientation
    THEN [R |-> Eye4.R, p |-> position]
    ELSE
      LET c == [k \in 1..3 |-> Cos(orientation[k])]
          s == [k \in 1..3 |-> Sin(orientation[k])]
          R_z(cy, sy) == << <<cy, -sy, 0>>, <<sy, cy, 0>>, <<0, 0, TrigScale>> >>
          R_y(cp, sp) == << <<cp, 0, sp>>, <<0, TrigScale, 0>>, <<-sp, 0, cp>> >>
          R_x(cr, sr) == << <<TrigScale, 0, 0>>, <<0, cr, -sr>>, <<0, sr, cr>> >>
      IN  [R |-> Mat3Mul(R_z(c[3], s[3]), Mat3Mul(R_y(c[2], s[2]), R_x(c[1], s[1]))),
           p |-> position]

\* pos_error = target_T[:3, 3] - current_T[:3, 3], in units
PosError(target_T, current_T) == [i \in 1..3 |-> target_T.p[i] - current_T.p[i]]

SumSq(v) == v[1] * v[1] + v[2] * v[2] + v[3] * v[3]

\* TrigScale * (1 - cos(angle_error)) for R_error = R_target R_current^T, whose trace
\* is the sum of the products of corresponding entries; np.clip keeps it within range
OneMinusCosAngleError(R_target, R_current) ==
    LET trace == RDiv(R_target[1][1] * R_current[1][1] + R_target[1][2] * R_current[1][2]
                      + R_target[1][3] * R_current[1][3] + R_target[2][1] * R_current[2][1]
                      + R_target[2][2] * R_current[2][2] + R_target[2][3] * R_current[2][3]
                      + R_target[3][1] * R_current[3][1] + R_target[3][2] * R_current[3][2]
                      + R_target[3][3] * R_current[3][3], TrigScale)
        clipped == Max(-TrigScale, Min(3 * TrigScale, trace))
    IN  (3 * TrigScale - clipped) \div 2

\* objective_function(x) < 1e-4 at the pose current_T of x.  The objective is
\* sum((10 pos_error)^2) in m^2 plus, when n_joints >= 3, the squared angle of the
\* rotation error (the target rotation is the identity when no orientation was
\* given).  In units: sum(pos_error^2) * 1e-6 + 2 (1 - cos(angle)) < 1e-4.
ObjectiveAccepts(n_joints, target_T, current_T) ==
    SumSq(PosError(target_T, current_T))
    + (IF n_joints >= 3
       THEN 200 * OneMinusCosAngleError(target_T.R, current_T.R)
       ELSE 0) < 100

\* the squared difference of column c of the two rotations (scaled by TrigScale^2)
AxisErrorSq(R_target, R_current, c) ==
    (R_target[1][c] - R_current[1][c]) * (R_target[1][c] - R_current[1][c])
    + (R_target[2][c] - R_current[2][c]) * (R_target[2][c] - R_current[2][c])
    + (R_target[3][c] - R_current[3][c]) * (R_target[3][c] - R_current[3][c])

\* least_squares cost 0.5 * sum(residual_function(x)^2) < 1e-4 at the pose of x, with
\* the residual vector the code builds for the chain's DOF: x only for one joint, x
\* and y for two, position and z axis from three on, and the x axis too from six on
ResidualAccepts(n_joints, target_T, current_T) ==
    LET e == PosError(target_T, current_T)
    IN  IF n_joints >= 6
        THEN SumSq(e) + AxisErrorSq(target_T.R, current_T.R, 3)
                      + AxisErrorSq(target_T.R, current_T.R, 1) < 20000
        ELSE IF n_joints >= 3
        THEN SumSq(e) + AxisErrorSq(target_T.R, current_T.R, 3) < 20000
        ELSE IF n_joints = 1
        THEN e[1] * e[1] < 20000
        ELSE e[1] * e[1] + e[2] * e[2] < 20000

\* RobotKinematics._verify_ik_solution: pos_error < 1e-3 m
_verify_ik_solution(joint_angles_rad, dh_params, target_T) ==
    SumSq(PosError(target_T, forward_kinematics(dh_params, joint_angles_rad))) < 100

\* the optimizers' bounds: every joint of the guess within its limits
WithinBounds(joint_angles_rad) == FirstJointOutside(joint_angles_rad) = 0

\* joint vectors the optimizers may converge to: a finite sample of configurations
\* (whole degrees in ticks, and mirror solutions rounded to a tick)
SearchPoints ==
    {<<0>>, <<Radians(1)>>, <<Radians(2)>>, <<Radians(-90)>>, <<Radians(360)>>,
     <<0, 0>>, <<0, Radians(1)>>, <<-180, Radians(10)>>, <<180, Radians(-10)>>,
     <<-273, Radians(15)>>,
     <<Radians(-9), Radians(20)>>, <<Radians(360), 0>>, <<0, Radians(90)>>,
     <<Radians(90), Radians(-90)>>, <<416, Radians(90)>>,
     <<0, 0, 0>>, <<0, Radians(90), Radians(-90)>>,
     <<0, 0, 0, 0>>, <<Radians(90), Radians(-90), 0, 0>>, <<0, 0, Radians(90), 0>>,
     <<Radians(45), 0, 0, Radians(180)>>}

\* RobotKinematics._inverse_kinematics_numerical_improved: everything it may return.
\* Which point an optimizer converges to from a guess is not modelled; a call returns
\* None or any sample point that passes the acceptance test of one of the three
\* methods.  L-BFGS-B and least_squares stay inside the joint limits; least_squares
\* raises on a guess outside them (caught, None, fsolve is not reached); fsolve is
\* tried for up to three joints, is unbounded, and raises on a guess whose length is
\* not the number of equations (caught).
_inverse_kinematics_numerical_improved(dh_params, target_T, initial_guess) ==
    LET n_joints == Len(dh_params)
        points == {x \in SearchPoints : Len(x) = Len(initial_guess)}
        method1(in_bounds, current_T) ==
            in_bounds /\ ObjectiveAccepts(n_joints, target_T, current_T)
        method2(guess_in_bounds, in_bounds, current_T) ==
            guess_in_bounds /\ in_bounds /\ ResidualAccepts(n_joints, target_T, current_T)
        method3(guess_in_bounds, x) ==
            /\ guess_in_bounds /\ n_joints <= 3
            /\ Len(initial_guess) = n_joints
            /\ _verify_ik_solution(x, dh_params, target_T)
        accepted(guess_in_bounds, x, in_bounds, current_T) ==
            \/ method1(in_bounds, current_T)
            \/ method2(guess_in_bounds, in_bounds, current_T)
            \/ method3(guess_in_bounds, x)
        from(guess_in_bounds) ==
            {x \in points :
                accepted(guess_in_bounds, x, WithinBounds(x),
                         forward_kinematics(dh_params, x))}
    IN  {None} \cup {Solution(x) : x \in from(WithinBounds(initial_guess))}

\* floor(n * 10^k / d) for n >= 0, d > 0, digit by digit: <<quotient, remainder>>
RECURSIVE LongDiv(_, _, _)
LongDiv(n, d, k) ==
    IF k = 0 THEN <<n \div d, n % d>>
    ELSE LET prev == LongDiv(n, d, k - 1)
         IN  <<10 * prev[1] + (10 * prev[2]) \div d, (10 * prev[2]) % d>>

\* num / den scaled by TrigScale (den # 0)
ScaledRatio(num, den) ==
    LET sign == IF (num < 0) = (den < 0) THEN 1 ELSE -1
    IN  sign * LongDiv(Abs(num), Abs(den), 4)[1]

\* floor(sqrt(n)) for 0 <= n, between lo and hi
RECURSIVE ISqrtIn(_, _, _)
ISqrtIn(n, lo, hi) ==
    IF lo >= hi THEN lo
    ELSE LET mid == (lo + hi + 1) \div 2
         IN  IF mid * mid <= n THEN ISqrtIn(n, mid, hi) ELSE ISqrtIn(n, lo, mid - 1)

ISqrt(n) == ISqrtIn(n, 0, Min(n, 46340))

\* the first tick t in lo..hi with x sin(t) - y cos(t) >= 0 (the expression grows
\* with t within a quarter turn of the direction of (x, y))
RECURSIVE DirectionIn(_, _, _, _)
DirectionIn(y, x, lo, hi) ==
    IF lo >= hi THEN lo
    ELSE LET mid == (lo + hi) \div 2
         IN  IF x * Sin(mid) - y * Cos(mid) >= 0
             THEN DirectionIn(y, x, lo, mid)
             ELSE DirectionIn(y, x, mid + 1, hi)

\* np.arctan2(y, x) in ticks, within [-180, 180] degrees
Atan2(y, x) ==
    IF x = 0 /\ y = 0 THEN 0
    ELSE
      LET centre == IF Abs(x) >= Abs(y)
                    THEN (IF x > 0 THEN 0 ELSE Radians(180))
                    ELSE (IF y > 0 THEN Radians(90) ELSE Radians(-90))
          Wrap(t) == IF t > Radians(180) THEN t - Radians(360)
                     ELSE IF y < 0 /\ t = Radians(180) THEN -t
                     ELSE t
          Around(mid) == Wrap(DirectionIn(y, x, mid - Radians(46), mid + Radians(46)))
      IN  Around(centre)

\* np.arccos(c) in ticks for c scaled by TrigScale, |c| <= TrigScale
Arccos(c) == Atan2(ISqrt(TrigScale * TrigScale - c * c), c)

\* RobotKinematics._check_joint_limits
_check_joint_limits(joint_angles_rad) == FirstJointOutside(joint_angles_rad) = 0

\* one branch of the loop over [theta2_1, theta2_2] in _2dof_planar_ik: the
\* configuration it returns, or None when the branch is skipped
PlanarBranch(x, y, l1, l2, theta2) ==
    LET Checked(denominator, theta1) ==
            IF denominator # 0 /\ _check_joint_limits(<<theta1, theta2>>)
            THEN Solution(<<theta1, theta2>>)
            ELSE None
        Theta1(denominator) ==
            Checked(denominator,
                    Atan2(y, x) - Atan2(RDiv(l2 * Sin(theta2), TrigScale), denominator))
    IN  Theta1(l1 + RDiv(l2 * Cos(theta2), TrigScale))

\* RobotKinematics._2dof_planar_ik, for a target given as a list of Python floats (as
\* the GUI passes it): the division by 2 l1 l2 raises ZeroDivisionError when a link
\* length is zero
_2dof_planar_ik(dh_params, target_pos) ==
    LET x == target_pos[1]
        y == target_pos[2]
        l1 == CmToUnits(dh_params[1][1])
        l2 == CmToUnits(dh_params[2][1])
        r2 == x * x + y * y
    IN  IF (l1 + l2 < 0) \/ r2 > (l1 + l2) * (l1 + l2) \/ r2 < (l1 - l2) * (l1 - l2)
        THEN None
        ELSE IF 2 * l1 * l2 = 0
        THEN Raised("ZeroDivisionError")
        ELSE
          LET np_clip(ratio) == IF Abs(ratio) > TrigScale
                                THEN (IF ratio > 0 THEN TrigScale ELSE -TrigScale)
                                ELSE ratio
              FirstOf(up, down) == IF up # None THEN up ELSE down
              Branches(theta2_1) ==
                  FirstOf(PlanarBranch(x, y, l1, l2, theta2_1),
                          PlanarBranch(x, y, l1, l2, -theta2_1))
          IN  Branches(Arccos(np_clip(ScaledRatio(r2 - l1 * l1 - l2 * l2, 2 * l1 * l2))))

\* RobotKinematics._3dof_planar_ik
_3dof_planar_ik(dh_params, target_pos) ==
    LET Extended(two_dof_solution) ==
            IF two_dof_solution.kind = "solution"
            THEN Solution(two_dof_solution.q \o <<0>>)
            ELSE two_dof_solution
    IN  Extended(_2dof_planar_ik(SubSeq(dh_params, 1, 2), target_pos))

\* RobotKinematics._inverse_kinematics_analytical: the set of possible results
_inverse_kinematics_analytical(dh_params, target_pos, target_orientation) ==
    IF Len(dh_params) = 2 THEN {_2dof_planar_ik(dh_params, target_pos)}
    ELSE IF Len(dh_params) = 3 THEN {_3dof_planar_ik(dh_params, target_pos)}
    ELSE _inverse_kinematics_numerical_improved(
             dh_params,
             create_target_transform_matrix(target_pos, target_orientation),
             [i \in 1..Len(dh_params) |-> 0])

\* RobotKinematics.inverse_kinematics: the set of possible results of one call (the
\* caller passes the zero vector of the chain's length for initial_guess = None)
inverse_kinematics(dh_params, target_pos, target_orientation, initial_guess, method) ==
    IF Len(target_pos) # 3
    THEN \* T[:3, 3] = position in create_target_transform_matrix
         {Raised("ValueError")}
    ELSE IF method = "numerical"
    THEN _inverse_kinematics_numerical_improved(
             dh_params,
             create_target_transform_matrix(target_pos, target_orientation),
             initial_guess)
    ELSE IF method = "analytical"
    THEN _inverse_kinematics_analytical(dh_params, target_pos, target_orientation)
    ELSE {Raised("ValueError")}

(***************************************************************************)
(* IK failure analysis (main.py)                                           *)
(***************************************************************************)
\* RobotSimulationGUI.analyze_ik_failure for a chain and a target in whole cm:
\* target_distance > 0.95 max_reach, else target_distance < 0.1 max_reach, else the
\* "constraints issue" text; distances are compared by their squares
analyze_ik_failure(dh_params, target_pos_cm) ==
    LET RECURSIVE SumAbsA(_)
        SumAbsA(n) == IF n = 0 THEN 0 ELSE SumAbsA(n - 1) + Abs(dh_params[n][1])
        max_reach == SumAbsA(Len(dh_params))
        dist2 == SumSq(target_pos_cm)
    IN  [max_reach |-> max_reach,
         target_distance_sq |-> dist2,
         verdict |-> IF 400 * dist2 > 361 * max_reach * max_reach THEN "too_far"
                     ELSE IF 100 * dist2 < max_reach * max_reach THEN "too_close"
                     ELSE "constraints"]

(***************************************************************************)
(* The multi-start IK search (main.py)                                     *)
(***************************************************************************)
\* self.position_tolerance_mm
position_tolerance_mm == 5

\* values np.random.uniform(-90, 90) may draw, in ticks
RandomAngles == {Radians(-45), Radians(60)}

\* the three random guesses of one generate_initial_guesses call
RandomGuesses(dof) == {[k \in 1..3 |-> [j \in 1..dof |-> a]] : a \in RandomAngles}

\* a list of guesses without the elbow-up and elbow-down guesses
InitialGuessesNoElbow(current_angles, dof, random_guesses) ==
    <<current_angles, [j \in 1..dof |-> 0]>> \o random_guesses

\* the list generate_initial_guesses builds from self.joint_angles, self.current_dof
\* and the random draws
InitialGuesses(current_angles, dof, random_guesses) ==
    LET zeros == [j \in 1..dof |-> 0]
        elbow_up == [zeros EXCEPT ![2] = Radians(90)]
        elbow_down == [zeros EXCEPT ![2] = Radians(-90)]
    IN  <<current_angles, zeros>>
        \o (IF dof >= 2 THEN <<elbow_up, elbow_down>> ELSE <<>>)
        \o random_guesses

\* a validation that checks the position error only
validate_ik_solution_position_only(solution, dh_params, target_pos) ==
    LET tolerance == position_tolerance_mm * 10
        verify_pos == forward_kinematics(dh_params, solution).p
        error == [i \in 1..3 |-> target_pos[i] - verify_pos[i]]
    IN  ~(SumSq(error) > tolerance * tolerance)

\* RobotSimulationGUI.validate_ik_solution with tolerance position_tolerance_mm / 1000
validate_ik_solution(solution, dh_params, target_pos) ==
    LET tolerance == position_tolerance_mm * 10
        verify_pos == forward_kinematics(dh_params, solution).p
        error == [i \in 1..3 |-> target_pos[i] - verify_pos[i]]
    IN  /\ ~(SumSq(error) > tolerance * tolerance)
        /\ \A i \in 1..Len(solution) : ~OutsideLimits(solution[i], i - 1)

\* a duplicate test that only recognises identical solutions
IsDuplicateExact(solution, solutions) ==
    \E k \in 1..Len(solutions) : solution = solutions[k]

\* the duplicate test of find_multiple_ik_solutions: every joint pair the zip yields
\* differs by less than 5 degrees from one of the solutions already kept
IsDuplicate(solution, solutions) ==
    \E k \in 1..Len(solutions) :
        \A j \in 1..Min(Len(solution), Len(solutions[k])) :
            Abs(solution[j] - solutions[k][j]) < Radians(5)

\* a break as soon as one solution is in the list
SolutionCapFirst(solutions) == Len(solutions) >= 1

\* the break of the guess loop
SolutionCap(solutions) == Len(solutions) >= 3

\* one pass of the loop body of find_multiple_ik_solutions, for the guess at index i
\* and what inverse_kinematics returned for it (judged: the result with the verdict
\* of validate_ik_solution).  Besides the list, the search state counts the guesses
\* tried and keeps the index of the first guess whose solution passed validation
\* and of the guess whose solution was appended last, and counts the guesses on
\* which inverse_kinematics raised (the except branch goes on with the next guess).
SearchStep(s, i, judged) ==
    LET Looped(append) ==
            [solutions |-> IF append THEN Append(s.solutions, judged.q) ELSE s.solutions,
             attempts |-> s.attempts + 1,
             first_accepted |-> IF judged.valid /\ s.first_accepted = 0
                                THEN i ELSE s.first_accepted,
             last_kept |-> IF append THEN i ELSE s.last_kept,
             skipped |-> IF judged.raised THEN s.skipped + 1 ELSE s.skipped,
             broke |-> /\ judged.solved
                       /\ SolutionCap(IF append THEN Append(s.solutions, judged.q)
                                      ELSE s.solutions)]
    IN  Looped(judged.valid /\ ~IsDuplicate(judged.q, s.solutions))

\* the loop of find_multiple_ik_solutions from the guess at index i on: the states
\* the search may end in, given the states it may be in before guess i
RECURSIVE SearchFrom(_, _, _, _, _)
SearchFrom(dh_params, target_pos_m, initial_guesses, i, states) ==
    IF i > Len(initial_guesses)
    THEN states
    ELSE
      LET results == inverse_kinematics(dh_params, target_pos_m, NoOrientation,
                                        initial_guesses[i], "numerical")
          judged == {[solved |-> r.kind = "solution",
                      raised |-> r.kind = "raise",
                      q |-> IF r.kind = "solution" THEN r.q ELSE <<>>,
                      valid |-> /\ r.kind = "solution"
                                /\ validate_ik_solution(r.q, dh_params, target_pos_m)] :
                     r \in results}
      IN  SearchFrom(dh_params, target_pos_m, initial_guesses, i + 1,
                     {s \in states : s.broke}
                     \cup {SearchStep(s, i, j) : s \in {t \in states : ~t.broke},
                                                 j \in judged})

\* RobotSimulationGUI.find_multiple_ik_solutions: everything one call may return
\* (the list, with the count of guesses tried and the first accepted guess)
find_multiple_ik_solutions(dh_params, target_pos_m, initial_guesses) ==
    SearchFrom(dh_params, target_pos_m, initial_guesses, 1,
               {[solutions |-> <<>>, attempts |-> 0, first_accepted |-> 0,
                 last_kept |-> 0, skipped |-> 0, broke |-> FALSE]})

(***************************************************************************)
(* Damped least squares (robot_kinematics.py)                              *)
(***************************************************************************)
\* A Jacobian is given by its shape and, for a matrix, its rank.  What the try block
\* of avoid_singularity does with it: np.dot(jacobian.T, jacobian) raises ValueError
\* for a three-dimensional array (b, m, n) with b # m (the last axis of the first
\* factor and the second-to-last of the second differ); np.linalg.inv raises
\* LinAlgError when J^T J + damping is singular, that is without damping and with a
\* rank below the number of columns; otherwise the damped inverse is computed.
DampedOutcome(jacobian, damping_factor) ==
    IF Len(jacobian.shape) = 3 /\ jacobian.shape[1] # jacobian.shape[2]
    THEN "ValueError"
    ELSE IF damping_factor = 0 /\ jacobian.rank < jacobian.shape[2]
    THEN "LinAlgError"
    ELSE "computed"

\* RobotKinematics.avoid_singularity: jacobian.shape[1] is read before the try block
\* (IndexError for a one-dimensional array); whatever the try block raises, the bare
\* except takes np.linalg.pinv(jacobian), which also accepts stacks of matrices
avoid_singularity(jacobian, damping_factor) ==
    IF Len(jacobian.shape) < 2
    THEN [kind |-> "raise", exc |-> "IndexError"]
    ELSE IF DampedOutcome(jacobian, damping_factor) = "computed"
    THEN [kind |-> "J_pinv", by |-> "damped"]
    ELSE [kind |-> "J_pinv", by |-> "pinv"]

(***************************************************************************)
(* Trajectory planning (trajectory_planner.py)                             *)
(***************************************************************************)
\* Times are whole ticks and angles whole degrees.  The values of a quintic of
\* duration T are fractions of denominator T^5: the samples carry the numerators,
\* and den is that denominator.

\* the solution of A x = b in plan_quintic_trajectory for zero boundary velocities
\* and accelerations (the defaults), times T^5: a0 = theta0, a1 = a2 = 0,
\* a3 = 10 (thetaf - theta0) / T^3, a4 = -15 (thetaf - theta0) / T^4,
\* a5 = 6 (thetaf - theta0) / T^5
QuinticCoefficients(theta0, thetaf, T) ==
    <<theta0 * T^5, 0, 0, 10 * (thetaf - theta0) * T^2, -15 * (thetaf - theta0) * T,
      6 * (thetaf - theta0)>>

\* np.arange(0, duration + dt, dt): the multiples of dt below duration + dt
Arange(duration, dt) == [i \in 1..((duration + dt - 1) \div dt + 1) |-> (i - 1) * dt]

\* TrajectoryPlanner.plan_quintic_trajectory(start_angles, end_angles, duration, dt)
\* with the default boundary velocities and accelerations
plan_quintic_trajectory(start_angles, end_angles, duration, dt) ==
    LET Sampled(time_array, n_joints) ==
          LET a == [j \in 1..n_joints |->
                       QuinticCoefficients(start_angles[j], end_angles[j], duration)]
              Over(value(_, _)) ==
                  [i \in 1..Len(time_array) |->
                      [j \in 1..n_joints |-> value(a[j], time_array[i])]]
              position(c, t) == c[1] + c[2] * t + c[3] * t^2 + c[4] * t^3 + c[5] * t^4
                                + c[6] * t^5
              velocity(c, t) == c[2] + 2 * c[3] * t + 3 * c[4] * t^2 + 4 * c[5] * t^3
                                + 5 * c[6] * t^4
              acceleration(c, t) == 2 * c[3] + 6 * c[4] * t + 12 * c[5] * t^2
                                    + 20 * c[6] * t^3
              jerk(c, t) == 6 * c[4] + 24 * c[5] * t + 60 * c[6] * t^2
          IN  [time |-> time_array,
               den |-> [i \in 1..Len(time_array) |-> duration^5],
               positions |-> Over(position),
               velocities |-> Over(velocity),
               accelerations |-> Over(acceleration),
               jerks |-> Over(jerk),
               coefficients |-> a,
               duration |-> duration,
               n_joints |-> n_joints]
    IN  Sampled(Arange(duration, dt), Len(start_angles))

\* seq without its first element, or whole
DropFirstIf(drop, seq) == IF drop THEN Tail(seq) ELSE seq

\* the loop over the segments of plan_multi_point_trajectory from segment
\* segment_idx on: all is the data gathered so far, and its field total_duration
\* is current_time_offset
RECURSIVE MultiPointFrom(_, _, _, _, _)
MultiPointFrom(waypoints, durations, dt, segment_idx, all) ==
    IF segment_idx > Len(waypoints) - 1
    THEN all
    ELSE
      LET Gathered(segment_traj, drop) ==
              [time |-> all.time
                        \o DropFirstIf(drop, [i \in 1..Len(segment_traj.time) |->
                                                segment_traj.time[i] + all.total_duration]),
               den |-> all.den \o DropFirstIf(drop, segment_traj.den),
               positions |-> all.positions \o DropFirstIf(drop, segment_traj.positions),
               velocities |-> all.velocities \o DropFirstIf(drop, segment_traj.velocities),
               accelerations |-> all.accelerations
                                 \o DropFirstIf(drop, segment_traj.accelerations),
               jerks |-> all.jerks \o DropFirstIf(drop, segment_traj.jerks),
               total_duration |-> all.total_duration + durations[segment_idx]]
      IN  MultiPointFrom(waypoints, durations, dt, segment_idx + 1,
                         Gathered(plan_quintic_trajectory(waypoints[segment_idx],
                                                          waypoints[segment_idx + 1],
                                                          durations[segment_idx], dt),
                                  segment_idx > 1))

\* TrajectoryPlanner.plan_multi_point_trajectory(waypoints, durations, dt)
plan_multi_point_trajectory(waypoints, durations, dt) ==
    IF Len(waypoints) - 1 < 1 \/ Len(durations) # Len(waypoints) - 1
    THEN [kind |-> "raise", exc |-> "ValueError"]
    ELSE [kind |-> "trajectory",
          n_joints |-> Len(waypoints[1]),
          n_segments |-> Len(waypoints) - 1]
         @@ MultiPointFrom(waypoints, durations, dt, 1,
                           [time |-> <<>>, den |-> <<>>, positions |-> <<>>,
                            velocities |-> <<>>, accelerations |-> <<>>, jerks |-> <<>>,
                            total_duration |-> 0])

\* sum of the squares of column joint_idx of an array of samples
RECURSIVE SumSqColumn(_, _, _)
SumSqColumn(array, joint_idx, n) ==
    IF n = 0 THEN 0
    ELSE SumSqColumn(array, joint_idx, n - 1) + array[n][joint_idx] * array[n][joint_idx]

\* np.max(np.abs(column joint_idx)) over the first n samples
RECURSIVE MaxAbsColumn(_, _, _)
MaxAbsColumn(array, joint_idx, n) ==
    IF n = 0 THEN 0
    ELSE Max(MaxAbsColumn(array, joint_idx, n - 1), Abs(array[n][joint_idx]))

\* np.sqrt(np.mean(joint_jerks**2)) in hundredths, rounded down
RmsJerk(jerks, joint_idx) ==
    ISqrt((SumSqColumn(jerks, joint_idx, Len(jerks)) * 10000) \div Len(jerks))

\* 1.0 / (1.0 + rms_jerk) in millionths, for rms_jerk in hundredths
SmoothnessScore(rms_jerk) == 100000000 \div (100 + rms_jerk)

RECURSIVE SumSeq(_)
SumSeq(seq) == IF seq = <<>> THEN 0 ELSE Head(seq) + SumSeq(Tail(seq))

\* an overall score that is the arithmetic mean of the per-joint scores
MeanOfScores(rms_jerks) ==
    SumSeq([j \in 1..Len(rms_jerks) |-> SmoothnessScore(rms_jerks[j])]) \div Len(rms_jerks)

\* analysis['overall_smoothness'] = 1.0 / (1.0 + total_jerk_rms / n_joints)
OverallSmoothness(rms_jerks) == SmoothnessScore(SumSeq(rms_jerks) \div Len(rms_jerks))

\* TrajectoryPlanner.analyze_trajectory_smoothness
analyze_trajectory_smoothness(trajectory_data) ==
    LET Analysis(jerks, n_joints) ==
          LET rms == [j \in 1..n_joints |-> RmsJerk(jerks, j)]
          IN  [joint_analysis |->
                  [j \in 1..n_joints |->
                      [joint |-> j,
                       rms_jerk |-> rms[j],
                       max_velocity |-> MaxAbsColumn(trajectory_data.velocities, j,
                                                     Len(trajectory_data.velocities)),
                       max_acceleration |->
                           MaxAbsColumn(trajectory_data.accelerations, j,
                                        Len(trajectory_data.accelerations)),
                       max_jerk |-> MaxAbsColumn(jerks, j, Len(jerks)),
                       smoothness_score |-> SmoothnessScore(rms[j])]],
               overall_smoothness |-> OverallSmoothness(rms)]
    IN  Analysis(trajectory_data.jerks, trajectory_data.n_joints)

(***************************************************************************)
(* Inputs of the core calls                                                *)
(***************************************************************************)
\* DhManager.default_params and the 2DOF_Planar preset, plus degenerate chains
Dh1 == << <<25, 0, 0, 0>> >>
Dh2 == << <<30, 0, 0, 0>>, <<25, 0, 0, 0>> >>
Dh3 == << <<0, 90, 12, 0>>, <<25, 0, 0, 0>>, <<20, 0, 0, 0>> >>
Dh4 == << <<25, 0, 15, 0>>, <<20, 180, 0, 0>>, <<0, 0, 12, 0>>, <<0, 0, 0, 0>> >>
Dh2Planar == << <<40, 0, 0, 0>>, <<30, 0, 0, 0>> >>
Dh1Short == << <<20, 0, 0, 0>> >>
Dh2ZeroLink == << <<20, 0, 0, 0>>, <<0, 0, 0, 0>> >>
Dh2Tilted == << <<20, 90, 0, 0>>, <<10, 0, 0, 0>> >>

CoreChains == {Dh1, Dh2, Dh3, Dh2Planar, Dh1Short, Dh2ZeroLink, Dh2Tilted}

\* joint angles (whole degrees, in ticks) the core calls are tried on
CoreAngles == {Radians(d) : d \in {-180, -90, 0, 90, 136}}

MaxVecLen == 2

JointVectors == UNION {[1..n -> CoreAngles] : n \in 0..MaxVecLen}

\* Jacobian analyses: regular (both values exactly on their thresholds), determinant
\* below the threshold, ill-conditioned
JacRegular == [det |-> 10, cond |-> 100]

JacSmallDet == [det |-> -5, cond |-> 40]

JacIllConditioned == [det |-> 1600000, cond |-> 101]

JacOutcomes == {JacRegular, JacSmallDet, JacIllConditioned}

\* trajectories handed to validate_trajectory_path: up to MaxTrajLen steps of the
\* chain's DOF (and of one joint more than the chain has)
MaxTrajLen == 3

ValidationChains == {Dh2Tilted, Dh1Short}

\* steps: inside all limits, joint 2 above and below its limit, joint 1 at its limit
\* with the tilted chain's second link pointing down
StepVectors ==
    {<<0, 0>>, <<0, Radians(136)>>, <<Radians(90), Radians(-136)>>,
     <<Radians(-180), Radians(-90)>>}

Trajectories == UNION {[1..n -> StepVectors] : n \in 0..MaxTrajLen}

\* start and target configurations of planned paths (two joints)
PlanStarts == {<<0, 0>>, <<0, Radians(120)>>, <<Radians(-90), 0>>}

PlanTargets ==
    {<<0, 0>>, <<Radians(90), Radians(-120)>>, <<0, Radians(-90)>>,
     <<Radians(120), Radians(136)>>, <<Radians(180), Radians(90)>>}

\* Jacobian analyses along a planned path: singular on the steps lo..lo+len-1
MaxSingularRun == 2

SingularStarts == {1, 6, n_steps}

PlanOracles ==
    {[i \in 1..(n_steps + 1) |-> IF lo <= i /\ i < lo + len THEN o ELSE JacRegular] :
        lo \in SingularStarts, len \in 0..MaxSingularRun,
        o \in {JacSmallDet, JacIllConditioned}}

CoreInit ==
    /\ call = [fn |-> "none"]
    /\ ret = None

Idle == call.fn = "none"

CallFK ==
    /\ UNCHANGED <<guiVars, buttonVars, armVars>>
    /\ Idle
    /\ \E dh \in CoreChains, q \in JointVectors :
        /\ call' = [fn |-> "forward_kinematics", dh_params |-> dh, joint_angles |-> q]
        /\ ret' = [kind |-> "pose", T |-> forward_kinematics(dh, q)]

CallValidate ==
    /\ UNCHANGED <<guiVars, buttonVars, armVars>>
    /\ Idle
    /\ \E dh \in ValidationChains, tr \in Trajectories :
         \E jac \in [1..Len(tr) -> JacOutcomes] :
            /\ call' = [fn |-> "validate_trajectory_path", trajectory |-> tr,
                        dh_params |-> dh, jac |-> jac]
            /\ ret' = validate_trajectory_path(tr, dh, jac)

CallPlanPath ==
    /\ UNCHANGED <<guiVars, buttonVars, armVars>>
    /\ Idle
    /\ \E dh \in {Dh2Planar, Dh2Tilted}, start \in PlanStarts, target \in PlanTargets,
          jac \in PlanOracles :
        LET plan == [dh_params |-> dh, start_angles |-> start, target_angles |-> target]
        IN  /\ call' = [fn |-> "plan_path_to_goal", plan |-> plan, jac |-> jac]
            /\ ret' = plan_path_to_goal(plan, jac)

\* targets of inverse_kinematics calls, in whole cm
CoreTargets ==
    {<<50, 0, 0>>, <<20, 0, 0>>, <<25, 0, 0>>, <<25, 30, 0>>, <<25, 0, 12>>, <<0, 20, 0>>,
     <<19, 0, 5>>,
     <<68, 0, 0>>, <<8, 0, 0>>, <<5, 0, 0>>, <<-40, -30, 0>>, <<70, 0, 0>>, <<0, 0, 0>>}

TargetUnits(target_pos_cm) ==
    [i \in 1..Len(target_pos_cm) |-> CmToUnits(target_pos_cm[i])]

Methods == {"numerical", "analytical", "newton"}

\* initial guesses of a call: the zero vector the code takes for None, a vector with
\* the first joint outside its limits, and a vector of one joint
IKGuesses(dh) ==
    {[j \in 1..Len(dh) |-> 0],
     [j \in 1..Len(dh) |-> IF j = 1 THEN Radians(200) ELSE 0],
     <<Radians(-180)>>}

CallIK ==
    /\ UNCHANGED <<guiVars, buttonVars, armVars>>
    /\ Idle
    /\ \E dh \in CoreChains, target \in CoreTargets, method \in Methods :
        \E guess \in IKGuesses(dh) :
         \E result \in inverse_kinematics(dh, TargetUnits(target), NoOrientation,
                                          guess, method) :
            /\ call' = [fn |-> "inverse_kinematics", dh_params |-> dh,
                        target_cm |-> target, initial_guess |-> guess,
                        method |-> method]
            /\ ret' = result

CallAnalyzeFailure ==
    /\ UNCHANGED <<guiVars, buttonVars, armVars>>
    /\ Idle
    /\ \E dh \in CoreChains, target \in CoreTargets :
            /\ call' = [fn |-> "analyze_ik_failure", dh_params |-> dh,
                        target_cm |-> target]
            /\ ret' = analyze_ik_failure(dh, target)

\* searches: the default one- and two-joint chains, targets in whole cm (one of them
\* with two coordinates only), the current configuration the first guess is taken
\* from
SearchTargets == {<<25, 0, 0>>, <<55, 0, 0>>, <<30, 0, 15>>, <<25, 0>>}

CallFindSolutions ==
    /\ UNCHANGED <<guiVars, buttonVars, armVars>>
    /\ Idle
    /\ \E dh \in {Dh1, Dh2}, target \in SearchTargets, turned \in {0, Radians(200)} :
         \E random_guesses \in RandomGuesses(Len(dh)) :
            LET current_angles == [j \in 1..Len(dh) |-> IF j = 1 THEN turned ELSE 0]
                guesses == InitialGuesses(current_angles, Len(dh), random_guesses)
            IN  \E found \in find_multiple_ik_solutions(dh, TargetUnits(target), guesses) :
                    /\ call' = [fn |-> "find_multiple_ik_solutions", dh_params |-> dh,
                                target_pos_m |-> TargetUnits(target),
                                joint_angles |-> current_angles,
                                initial_guesses |-> guesses]
                    /\ ret' = found

\* durations and sampling steps of the planned trajectories, in ticks
MaxDuration == 4

MaxDt == 2

\* start and end configurations of the quintic trajectories, in degrees
QuinticAngles == {<<0>>, <<30>>, <<0, -90>>, <<45, 10>>}

CallQuintic ==
    /\ UNCHANGED <<guiVars, buttonVars, armVars>>
    /\ Idle
    /\ \E start_angles \in QuinticAngles, end_angles \in QuinticAngles,
          duration \in 1..MaxDuration, dt \in 1..MaxDt :
        /\ Len(start_angles) = Len(end_angles)
        /\ call' = [fn |-> "plan_quintic_trajectory", start_angles |-> start_angles,
                    end_angles |-> end_angles, duration |-> duration, dt |-> dt]
        /\ ret' = [kind |-> "trajectory"]
                  @@ plan_quintic_trajectory(start_angles, end_angles, duration, dt)

\* waypoint lists of one joint: three and two waypoints, and a single one
WaypointLists == {<<<<0>>, <<30>>, <<-20>>>>, <<<<10>>, <<0>>>>, <<<<5>>>>}

CallMultiPoint ==
    /\ UNCHANGED <<guiVars, buttonVars, armVars>>
    /\ Idle
    /\ \E waypoints \in WaypointLists, n \in 1..2, dt \in 1..MaxDt :
         \E durations \in [1..n -> 1..MaxDuration] :
            /\ call' = [fn |-> "plan_multi_point_trajectory", waypoints |-> waypoints,
                        durations |-> durations, dt |-> dt]
            /\ ret' = plan_multi_point_trajectory(waypoints, durations, dt)

\* the jerks of one joint over three samples
JerkColumns == {<<0, 0, 0>>, <<3, -3, 3>>, <<1, 2, 2>>, <<20, 0, -20>>}

\* trajectory data of one or two joints: the jerk columns joint by joint, and one
\* column for the velocities and for the accelerations of every joint
TrajectoryData ==
    {[n_joints |-> Len(columns),
      jerks |-> [i \in 1..3 |-> [j \in 1..Len(columns) |-> columns[j][i]]],
      velocities |-> [i \in 1..3 |-> [j \in 1..Len(columns) |-> others[i]]],
      accelerations |-> [i \in 1..3 |-> [j \in 1..Len(columns) |-> 2 * others[i]]]] :
        columns \in UNION {[1..k -> JerkColumns] : k \in 1..2},
        others \in {<<0, 5, 0>>, <<0, -7, 2>>}}

CallSmoothness ==
    /\ UNCHANGED <<guiVars, buttonVars, armVars>>
    /\ Idle
    /\ \E trajectory_data \in TrajectoryData :
        /\ call' = [fn |-> "analyze_trajectory_smoothness",
                    trajectory_data |-> trajectory_data]
        /\ ret' = [kind |-> "analysis"] @@ analyze_trajectory_smoothness(trajectory_data)

\* chains of the round trips: the default chains of one to four joints
RoundTripChains == {Dh1, Dh2, Dh3, Dh4}

\* configurations of a chain inside the joint limits
RoundTripAngles(dh) == {x \in SearchPoints : Len(x) = Len(dh) /\ WithinBounds(x)}

\* forward_kinematics(chain, angles), then inverse_kinematics on the position of that
\* pose, without orientation, with the angles as the initial guess: the target and
\* everything the call may return
CallRoundTrip ==
    /\ UNCHANGED <<guiVars, buttonVars, armVars>>
    /\ Idle
    /\ \E dh \in RoundTripChains :
         \E angles \in RoundTripAngles(dh) :
            LET Back(position) ==
                    [kind |-> "results",
                     target |-> position,
                     results |-> inverse_kinematics(dh, position, NoOrientation,
                                                    angles, "numerical")]
            IN  /\ call' = [fn |-> "round_trip", dh_params |-> dh,
                            joint_angles |-> angles]
                /\ ret' = Back(forward_kinematics(dh, angles).p)

\* target orientations: none, and roll-pitch-yaw angles in ticks
TargetOrientations == {NoOrientation, <<0, 0, 0>>, <<Radians(90), 0, 0>>}

\* objective_function and residual_function of
\* _inverse_kinematics_numerical_improved evaluated at a configuration, for the
\* target built from the position a second configuration reaches and from an
\* orientation: the squared position error and whether the objective and the
\* least-squares cost are under the 1e-4 the optimizers' results are tested with
CallObjective ==
    /\ UNCHANGED <<guiVars, buttonVars, armVars>>
    /\ Idle
    /\ \E dh \in RoundTripChains, orientation \in TargetOrientations :
         \E joint_angles_rad \in RoundTripAngles(dh), reached \in RoundTripAngles(dh) :
            LET Evaluated(target_T, current_T) ==
                    [kind |-> "objective",
                     pos_error_sq |-> SumSq(PosError(target_T, current_T)),
                     objective_accepts |-> ObjectiveAccepts(Len(dh), target_T, current_T),
                     residual_accepts |-> ResidualAccepts(Len(dh), target_T, current_T)]
            IN  /\ call' = [fn |-> "objective_function", dh_params |-> dh,
                            joint_angles |-> joint_angles_rad, reached |-> reached,
                            target_orientation |-> orientation]
                /\ ret' = Evaluated(
                              create_target_transform_matrix(
                                  forward_kinematics(dh, reached).p, orientation),
                              forward_kinematics(dh, joint_angles_rad))

\* Jacobians: matrices of full and of deficient rank, a stack of matrices and a
\* vector
Jacobians ==
    {[shape |-> <<3, 2>>, rank |-> 2], [shape |-> <<3, 2>>, rank |-> 1],
     [shape |-> <<2, 2>>, rank |-> 1], [shape |-> <<2, 3, 2>>, rank |-> 2],
     [shape |-> <<3>>, rank |-> 1]}

\* damping factors, in tenths (the default is 0.1)
DampingFactors == {0, 1}

CallAvoidSingularity ==
    /\ UNCHANGED <<guiVars, buttonVars, armVars>>
    /\ Idle
    /\ \E jacobian \in Jacobians, damping_factor \in DampingFactors :
        /\ call' = [fn |-> "avoid_singularity", jacobian |-> jacobian,
                    damping_factor |-> damping_factor]
        /\ ret' = avoid_singularity(jacobian, damping_factor)

\* two calls of generate_initial_guesses in a row, on the same joint_angles and
\* current_dof.  The function takes no seed and nothing in the program seeds
\* np.random, so each call draws what the global generator gives at that moment.
CallGenerateGuessesTwice ==
    /\ UNCHANGED <<guiVars, buttonVars, armVars>>
    /\ Idle
    /\ \E dof \in 1..2, turned \in {0, Radians(90)} :
         \E first \in RandomGuesses(dof), second \in RandomGuesses(dof) :
            LET current_angles == [j \in 1..dof |-> IF j = 1 THEN turned ELSE 0]
            IN  /\ call' = [fn |-> "generate_initial_guesses",
                            joint_angles |-> current_angles, current_dof |-> dof]
                /\ ret' = [kind |-> "guesses",
                           first |-> InitialGuesses(current_angles, dof, first),
                           second |-> InitialGuesses(current_angles, dof, second)]

\* angles handed to interpolate_angles, and the interpolation steps i of n_steps
InterpolatedAngles ==
    {Radians(-180), Radians(-90), 0, Radians(45), Radians(120), Radians(180),
     Radians(400)}

InterpolationSteps == {0, 10, n_steps}

CallInterpolate ==
    /\ UNCHANGED <<guiVars, buttonVars, armVars>>
    /\ Idle
    /\ \E angle1 \in InterpolatedAngles, angle2 \in InterpolatedAngles,
          i \in InterpolationSteps :
        /\ call' = [fn |-> "interpolate_angles", angle1 |-> angle1, angle2 |-> angle2,
                    i |-> i]
        /\ ret' = [kind |-> "angle",
                   diff |-> WrappedDifference(angle1, angle2),
                   result |-> interpolate_angles(angle1, angle2, i, n_steps)]

\* the caller takes the result; the next call starts from the idle state
Return ==
    /\ UNCHANGED <<guiVars, buttonVars, armVars>>
    /\ ~Idle
    /\ call' = [fn |-> "none"]
    /\ ret' = None

CoreNext ==
    \/ CallFK
    \/ CallValidate
    \/ CallPlanPath
    \/ CallIK
    \/ CallAnalyzeFailure
    \/ CallFindSolutions
    \/ CallGenerateGuessesTwice
    \/ CallRoundTrip
    \/ CallQuintic
    \/ CallMultiPoint
    \/ CallSmoothness
    \/ CallObjective
    \/ CallAvoidSingularity
    \/ CallInterpolate
    \/ Return

(***************************************************************************)
(* The GUI object (main.py): state, handlers and timers                    *)
(***************************************************************************)
\* DHParameterManager.get_default_dh_params for the DOF values the model selects
get_default_dh_params(dof) ==
    CASE dof = 1 -> Dh1
      [] dof = 2 -> Dh2
      [] dof = 3 -> Dh3

\* the text of an entry: a number (whole cm) or a text float() rejects
Numeric(v) == [num |-> TRUE, val |-> v]

NotANumber == [num |-> FALSE, val |-> 0]

EntryTexts(pos) == [i \in 1..3 |-> Numeric(pos[i])]

\* the loops "try: float(entry.get()) except: 0.0" over the target entries
ParseOrZero(entries) == [i \in 1..3 |-> IF entries[i].num THEN entries[i].val ELSE 0]

\* [float(self.target_pos_entries[i].get()) for i in range(3)] does not raise
AllNumeric(entries) == \A i \in 1..3 : entries[i].num

NoTimer == [pending |-> FALSE, trajectory |-> <<>>, step |-> 0]

\* last_target_position = None
NoTarget == <<>>

\* the dictionary reset_simulation_state stores
FreshSimulationState == [is_first_run |-> TRUE, last_target_position |-> NoTarget]

\* the first loop of on_target_change: the entries are copied into target_position
\* one by one until float() raises ValueError
RECURSIVE CopyTargetFrom(_, _, _)
CopyTargetFrom(position, entries, i) ==
    IF i > 3 \/ ~entries[i].num THEN position
    ELSE CopyTargetFrom([position EXCEPT ![i] = entries[i].val], entries, i + 1)

\* the end of on_target_change: a new target makes the next run a first run
NoteTarget(state, position) ==
    IF state.last_target_position # position
    THEN [is_first_run |-> TRUE, last_target_position |-> position]
    ELSE state

GuiInit ==
    /\ robot_type = "Forward"
    /\ current_dof = 1
    /\ dh_entries = get_default_dh_params(1)
    /\ joint_angles = <<0>>
    /\ target_pos_entries = EntryTexts(<<30, 0, 15>>)
    /\ ik_solutions = <<>>
    /\ selected_ik_solution = 0
    /\ simulation_running = FALSE
    /\ controls_enabled = TRUE
    /\ animation = NoTimer
    /\ run_log = <<"Idle">>
    /\ target_position = <<30, 0, 15>>
    /\ simulation_state = FreshSimulationState
    /\ last_message = "none"

\* the control widgets accept input
Ready == controls_enabled

\* what the user types into the target entries
TypedTargets == {EntryTexts(<<25, 30, 0>>), <<NotANumber, Numeric(0), Numeric(0)>>}

\* the user edits the target entries (RobotSimulationGUI.on_target_change follows
\* each edit; the attributes it updates are not part of this model)
on_target_change ==
    /\ Ready
    /\ \E text \in TypedTargets : target_pos_entries' = text
    /\ run_log' = <<"Idle">>
    /\ UNCHANGED <<robot_type, current_dof, dh_entries, joint_angles, ik_solutions,
                   selected_ik_solution, simulation_running, controls_enabled,
                   animation>>
    /\ UNCHANGED <<coreVars, buttonVars, armVars>>
    /\ target_position' = CopyTargetFrom(target_position, target_pos_entries', 1)
    /\ simulation_state' = NoteTarget(simulation_state, target_position')
    /\ UNCHANGED last_message

\* what the user types into the joint entries of the Forward mode: zeros, or an
\* angle outside the limits for the first or for the second joint
TypedJointAngles(dof) ==
    {[i \in 1..dof |-> 0],
     [i \in 1..dof |-> IF i = 1 THEN Radians(200) ELSE 0],
     [i \in 1..dof |-> IF i = 2 THEN Radians(136) ELSE 0]}

\* RobotSimulationGUI.on_joint_angle_change and the update_robot_display it
\* schedules: read_current_joint_angles copies the entries into joint_angles
JointAnglesTyped(typed_angles) ==
    /\ Ready
    /\ run_log' = <<"Idle">>
    /\ robot_type = "Forward"
    /\ \E typed \in typed_angles : joint_angles' = typed
    /\ UNCHANGED <<robot_type, current_dof, dh_entries, target_pos_entries, ik_solutions, selected_ik_solution,
                   simulation_running, controls_enabled, animation>>
    /\ UNCHANGED <<coreVars, buttonVars, armVars>>
    /\ UNCHANGED <<target_position, simulation_state, last_message>>

on_joint_angle_change == JointAnglesTyped(TypedJointAngles(current_dof))

\* RobotSimulationGUI.on_robot_type_change
on_robot_type_change ==
    /\ Ready
    /\ run_log' = <<"Idle">>
    /\ \E type_var \in {"Forward", "Inverse"} : robot_type' = type_var
    /\ ik_solutions' = <<>>
    /\ selected_ik_solution' = 0
    /\ UNCHANGED <<current_dof, dh_entries, joint_angles, target_pos_entries, simulation_running, controls_enabled, animation>>
    /\ UNCHANGED <<coreVars, buttonVars, armVars>>
    /\ simulation_state' = FreshSimulationState
    /\ UNCHANGED <<target_position, last_message>>

DofChoices == {1, 2}

\* a DOF change that leaves self.joint_angles as it is
KeepJointAngles(angles, new_dof) == angles

\* on_dof_change: self.joint_angles is extended by zeros when it is shorter than the
\* new DOF, and cut to its first new_dof entries otherwise
ExtendOrTruncate(angles, new_dof) ==
    IF Len(angles) < new_dof
    THEN angles \o [i \in 1..(new_dof - Len(angles)) |-> 0]
    ELSE SubSeq(angles, 1, new_dof)

\* RobotSimulationGUI.on_dof_change
on_dof_change ==
    /\ Ready
    /\ run_log' = <<"Idle">>
    /\ \E new_dof \in DofChoices :
        /\ new_dof # current_dof
        /\ current_dof' = new_dof
        /\ joint_angles' = ExtendOrTruncate(joint_angles, new_dof)
        /\ dh_entries' = get_default_dh_params(new_dof)
    /\ ik_solutions' = <<>>
    /\ selected_ik_solution' = 0
    /\ UNCHANGED <<robot_type, target_pos_entries, simulation_running,
                   controls_enabled, animation>>
    /\ UNCHANGED <<coreVars, buttonVars, armVars>>
    /\ simulation_state' = FreshSimulationState
    /\ UNCHANGED <<target_position, last_message>>

\* RobotSimulationGUI.reset_to_default
reset_to_default ==
    /\ Ready
    /\ run_log' = <<"Idle">>
    /\ current_dof' = 1
    /\ robot_type' = "Forward"
    /\ joint_angles' = <<0>>
    /\ dh_entries' = get_default_dh_params(1)
    /\ ik_solutions' = <<>>
    /\ selected_ik_solution' = 0
    /\ target_pos_entries' = EntryTexts(<<30, 0, 15>>)
    /\ UNCHANGED <<simulation_running, controls_enabled, animation>>
    /\ UNCHANGED <<coreVars, buttonVars, armVars>>
    /\ simulation_state' = FreshSimulationState
    /\ target_position' = <<30, 0, 15>>
    /\ last_message' = "other"

\* DH tables of the YAML files the user may load
YamlTables == {Dh1Short, Dh2Tilted}

\* RobotSimulationGUI.load_yaml_parameters with a file that load_from_yaml accepts
load_yaml_parameters ==
    /\ Ready
    /\ run_log' = <<"Idle">>
    /\ \E params \in YamlTables :
        /\ current_dof' = Len(params)
        /\ joint_angles' = [i \in 1..Len(params) |-> 0]
        /\ dh_entries' = params
    /\ ik_solutions' = <<>>
    /\ selected_ik_solution' = 0
    /\ UNCHANGED <<robot_type, target_pos_entries, simulation_running,
                   controls_enabled, animation>>
    /\ UNCHANGED <<coreVars, buttonVars, armVars>>
    /\ simulation_state' = FreshSimulationState
    /\ last_message' = "other"
    /\ UNCHANGED target_position

\* the presets "1DOF Simple" and "2DOF Planar" of load_preset_robot: <<dof, params>>
Presets == {<<1, << <<30, 0, 0, 0>> >> >>, <<2, Dh2Planar>>}

\* load_selected of RobotSimulationGUI.load_preset_robot (the Load button of the
\* modal dialog)
load_preset_robot ==
    /\ Ready
    /\ run_log' = <<"Idle">>
    /\ \E preset \in Presets :
        /\ current_dof' = preset[1]
        /\ joint_angles' = [i \in 1..preset[1] |-> 0]
        /\ dh_entries' = preset[2]
    /\ ik_solutions' = <<>>
    /\ selected_ik_solution' = 0
    /\ UNCHANGED <<robot_type, target_pos_entries, simulation_running,
                   controls_enabled, animation>>
    /\ UNCHANGED <<coreVars, buttonVars, armVars>>
    /\ simulation_state' = FreshSimulationState
    /\ last_message' = "other"
    /\ UNCHANGED target_position

\* RobotSimulationGUI.generate_initial_guesses, given the random draws
generate_initial_guesses(random_guesses) ==
    InitialGuesses(joint_angles, current_dof, random_guesses)

\* RobotSimulationGUI.calculate_inverse_kinematics: the search, then
\* display_ik_results_in_right_panel takes the list it returned
calculate_inverse_kinematics ==
    /\ Ready
    /\ robot_type = "Inverse"
    /\ run_log' = <<"Idle">>
    /\ \E random_guesses \in RandomGuesses(current_dof) :
        \E solutions \in {found.solutions :
                            found \in find_multiple_ik_solutions(
                                dh_entries, TargetUnits(ParseOrZero(target_pos_entries)),
                                generate_initial_guesses(random_guesses))} :
            ik_solutions' = solutions
    /\ UNCHANGED <<robot_type, current_dof, dh_entries, joint_angles,
                   target_pos_entries, selected_ik_solution, simulation_running,
                   controls_enabled, animation>>
    /\ UNCHANGED <<coreVars, buttonVars, armVars>>
    /\ UNCHANGED <<target_position, simulation_state, last_message>>

\* RobotSimulationGUI.select_ik_solution from one of the Select buttons of the
\* solution panel (the panel is not among the widgets enable_controls disables)
select_ik_solution ==
    /\ \E solution_index \in 0..(Len(ik_solutions) - 1) :
        /\ solution_index # selected_ik_solution
        /\ selected_ik_solution' = solution_index
    /\ UNCHANGED <<robot_type, current_dof, dh_entries, joint_angles, target_pos_entries, ik_solutions, simulation_running,
                   controls_enabled, animation, run_log>>
    /\ UNCHANGED <<coreVars, buttonVars, armVars>>
    /\ last_message' = "other"
    /\ UNCHANGED <<target_position, simulation_state>>

\* Jacobian analyses along the path of a run.  The warnings they lead to are only
\* printed when the animation ends, and the verdict of the validation does not
\* depend on them, so the runs of the GUI take the analyses without warnings.
QuietJacobian == [i \in 1..(n_steps + 1) |-> JacRegular]

\* RobotSimulationGUI.create_goal_oriented_plan: the target configurations it may
\* choose; anything else than a solution makes it return None
PlanTargetAngles ==
    IF robot_type = "Inverse" /\ ik_solutions # <<>>
    THEN IF selected_ik_solution < Len(ik_solutions)
         THEN {Solution(ik_solutions[selected_ik_solution + 1])}
         ELSE {Raised("IndexError")}
    ELSE inverse_kinematics(dh_entries, TargetUnits(ParseOrZero(target_pos_entries)),
                            NoOrientation, joint_angles, "numerical")

\* the animation steps before which a further Run Simulation request arrives
RunRequestFrames == {1, 18, n_steps}

\* a Run Simulation handler that does not look at simulation_running
NeverAlreadyRunning == FALSE

\* "if self.simulation_running:" at the head of run_goal_oriented_simulation
AlreadyRunning == simulation_running

\* RobotSimulationGUI.run_goal_oriented_simulation, up to and including the first
\* animate_step(0) call of execute_goal_simulation_enhanced.  The Run Simulation
\* button calls it while the controls are enabled; a request made while a run is
\* active reaches the handler as a direct call, before one of the frames of
\* RunRequestFrames.
run_goal_oriented_simulation ==
    /\ Ready \/ (simulation_running /\ animation.step \in RunRequestFrames)
    /\ IF AlreadyRunning
       THEN /\ last_message' = "already_running"
            /\ UNCHANGED <<simulation_running, controls_enabled, animation, run_log,
                           simulation_state>>
       ELSE
        /\ last_message' = "other"
        /\ simulation_state' = IF simulation_state.is_first_run THEN simulation_state
                               ELSE FreshSimulationState
        /\ \E target_angles \in PlanTargetAngles :
            LET plan == [dh_params |-> dh_entries, start_angles |-> joint_angles,
                         target_angles |-> target_angles.q]
                path_result == plan_path_to_goal(plan, QuietJacobian)
            IN  IF target_angles.kind # "solution"
                THEN /\ run_log' = <<"Planning", "Failed">>
                     /\ UNCHANGED <<simulation_running, controls_enabled, animation>>
                ELSE IF ~path_result.success
                THEN /\ run_log' = <<"Planning", "Validating", "Failed">>
                     /\ UNCHANGED <<simulation_running, controls_enabled, animation>>
                ELSE IF ~AllNumeric(target_pos_entries)
                THEN \* started, then float() raises: the except branch stops the run
                     /\ run_log' = <<"Planning", "Validating", "Executing", "Failed">>
                     /\ simulation_running' = FALSE
                     /\ controls_enabled' = TRUE
                     /\ UNCHANGED animation
                ELSE /\ run_log' = <<"Planning", "Validating", "Executing">>
                     /\ simulation_running' = TRUE
                     /\ controls_enabled' = FALSE
                     /\ animation' = [pending |-> TRUE,
                                      trajectory |-> path_result.trajectory,
                                      step |-> 1]
    /\ UNCHANGED <<robot_type, current_dof, dh_entries, joint_angles,
                   target_pos_entries, ik_solutions, selected_ik_solution,
                   target_position>>
    /\ UNCHANGED <<coreVars, buttonVars, armVars>>

\* an animation that takes the last frame for the end
LastFrameReached(step, trajectory) == step >= Len(trajectory) - 1

\* "step >= len(trajectory)" of animate_step
TrajectoryDone(step, trajectory) == step >= Len(trajectory)

\* the timer calls animate_step(step) of execute_goal_simulation_enhanced
animate_step ==
    /\ animation.pending
    /\ LET trajectory == animation.trajectory
           step == animation.step
       IN  IF ~simulation_running \/ TrajectoryDone(step, trajectory)
           THEN /\ simulation_running' = FALSE
                /\ controls_enabled' = TRUE
                /\ joint_angles' = IF step > 0 THEN trajectory[Len(trajectory)]
                                   ELSE joint_angles
                /\ animation' = NoTimer
                /\ run_log' = Append(run_log, "Completed")
                /\ simulation_state' = [simulation_state EXCEPT !.is_first_run = FALSE]
                /\ last_message' = "other"
           ELSE /\ animation' = [animation EXCEPT !.step = step + 1]
                /\ last_message' = IF step % 5 = 0 THEN "other" ELSE last_message
                /\ UNCHANGED <<simulation_running, controls_enabled, joint_angles,
                               run_log, simulation_state>>
    /\ UNCHANGED <<robot_type, current_dof, dh_entries, target_pos_entries,
                   ik_solutions, selected_ik_solution>>
    /\ UNCHANGED <<coreVars, buttonVars, armVars>>
    /\ UNCHANGED target_position

(***************************************************************************)
(* The press-and-hold buttons of main.py: the two buttons of joint 0       *)
(* (Forward mode) and the two buttons of the alpha entry of link 1.  The   *)
(* entry of joint 0 shows joint_angles[0]: every handler below ends in     *)
(* update_robot_display, whose read_current_joint_angles copies the entry. *)
(***************************************************************************)
\* how many press-and-hold handler runs a behaviour holds
MaxButtonCalls == 5

\* how many root.after callbacks may be pending for the joint or for the DH buttons
MaxPendingTimers == 2

NoButtonCalls == [joint |-> 0, dh |-> 0]

ButtonsInit ==
    /\ button_pressed = [joint |-> FALSE, dh |-> FALSE]
    /\ button_press_count = 0
    /\ joint_timers = <<>>
    /\ dh_timers = <<>>
    /\ mouse = "up"
    /\ button_calls = NoButtonCalls

\* the decrement / increment button of joint 0 and of the alpha entry of link 1
JointButton(direction) == IF direction < 0 THEN "joint_dec" ELSE "joint_inc"

DhButton(step) == IF step < 0 THEN "dh_dec" ELSE "dh_inc"

ButtonBudgetLeft == button_calls.joint + button_calls.dh < MaxButtonCalls

\* a press-and-hold step is written although it leaves the limits
NeverOutsideLimits(new_value, joint_limits) == FALSE

\* continuous_button_press: new_value < min_limit or new_value > max_limit
OutsideJointLimits(new_value, joint_limits) ==
    \/ new_value < Radians(joint_limits[1])
    \/ new_value > Radians(joint_limits[2])

\* what the user types into the entry of joint 0 before holding its buttons
TypedNearLimit == {<<Radians(179)>>, <<Radians(-180)>>}

on_joint_angle_change_near_limit ==
    /\ current_dof = 1
    /\ JointAnglesTyped(TypedNearLimit)

\* RobotSimulationGUI.continuous_button_press(0, direction), called with the
\* flag button_pressed[0] as it stands and the callbacks that stay pending
continuous_button_press(direction, pressed, pending) ==
    LET new_value == joint_angles[1] + direction * TicksPerDeg
    IN  IF ~pressed
        THEN /\ button_pressed' = [button_pressed EXCEPT !.joint = FALSE]
             /\ joint_timers' = pending
             /\ UNCHANGED joint_angles
        ELSE IF OutsideJointLimits(new_value, get_joint_limits(0))
        THEN /\ button_pressed' = [button_pressed EXCEPT !.joint = FALSE]
             /\ joint_timers' = pending
             /\ UNCHANGED joint_angles
        ELSE /\ button_pressed' = [button_pressed EXCEPT !.joint = TRUE]
             /\ joint_angles' = [joint_angles EXCEPT ![1] = new_value]
             /\ joint_timers' = Append(pending, direction)

\* what no press-and-hold handler of a joint button touches
JointButtonFrame ==
    /\ UNCHANGED <<robot_type, current_dof, dh_entries, target_pos_entries, ik_solutions,
                   selected_ik_solution, simulation_running, controls_enabled, animation,
                   run_log, target_position, simulation_state, last_message>>
    /\ UNCHANGED <<button_press_count, dh_timers>>
    /\ UNCHANGED <<coreVars, armVars>>

\* <Button-1> on a button of joint 0: RobotSimulationGUI.start_button_press
start_button_press ==
    /\ robot_type = "Forward"
    /\ mouse = "up"
    /\ ButtonBudgetLeft
    /\ Len(joint_timers) < MaxPendingTimers
    /\ \E direction \in {-1, 1} :
        /\ mouse' = JointButton(direction)
        /\ continuous_button_press(direction, TRUE, joint_timers)
    /\ button_calls' = [button_calls EXCEPT !.joint = @ + 1]
    /\ JointButtonFrame

\* <ButtonRelease-1> on that button: RobotSimulationGUI.stop_button_press
stop_button_press ==
    /\ mouse \in {"joint_dec", "joint_inc"}
    /\ mouse' = "up"
    /\ button_pressed' = [button_pressed EXCEPT !.joint = FALSE]
    /\ UNCHANGED <<joint_angles, joint_timers, button_calls>>
    /\ JointButtonFrame

\* the oldest root.after(100, ...) callback of the joint buttons fires
joint_timer_fires ==
    /\ joint_timers # <<>>
    /\ ButtonBudgetLeft
    /\ continuous_button_press(Head(joint_timers), button_pressed.joint, Tail(joint_timers))
    /\ button_calls' = [button_calls EXCEPT !.joint = @ + 1]
    /\ UNCHANGED mouse
    /\ JointButtonFrame

\* RobotSimulationGUI.change_dh_parameter_value on the numeric entry param (1..4:
\* a, alpha, d, theta) of link link_idx
change_dh_parameter_value(entries, link_idx, param, step) ==
    LET new_value == entries[link_idx][param] + step
        bound == IF param \in {1, 3} THEN 200 ELSE 360
        clamped == IF new_value > bound THEN bound
                   ELSE IF new_value < -bound THEN -bound ELSE new_value
    IN  [entries EXCEPT ![link_idx][param] = clamped]

\* the step of continuous_dh_button_press after count repetitions
AcceleratedStep(step, count) ==
    IF count < 5 THEN step ELSE IF count < 10 THEN step * 2 ELSE step * 3

Without(timers, k) == [i \in 1..(Len(timers) - 1) |-> IF i < k THEN timers[i] ELSE timers[i + 1]]

\* what no press-and-hold handler of a DH button touches
DhButtonFrame ==
    /\ UNCHANGED <<robot_type, current_dof, joint_angles, target_pos_entries, ik_solutions,
                   selected_ik_solution, simulation_running, controls_enabled, animation,
                   run_log, target_position, simulation_state, last_message>>
    /\ UNCHANGED joint_timers
    /\ UNCHANGED <<coreVars, armVars>>

\* <Button-1> on a button of the alpha entry: RobotSimulationGUI.start_dh_button_press
start_dh_button_press ==
    /\ mouse = "up"
    /\ ButtonBudgetLeft
    /\ Len(dh_timers) < MaxPendingTimers
    /\ \E step \in {-1, 1} :
        /\ mouse' = DhButton(step)
        /\ dh_entries' = change_dh_parameter_value(dh_entries, 1, 2, step)
        /\ dh_timers' = Append(dh_timers, step)
    /\ button_pressed' = [button_pressed EXCEPT !.dh = TRUE]
    /\ button_press_count' = 0
    /\ button_calls' = [button_calls EXCEPT !.dh = @ + 1]
    /\ DhButtonFrame

\* <ButtonRelease-1> on that button: RobotSimulationGUI.stop_dh_button_press
stop_dh_button_press ==
    /\ mouse \in {"dh_dec", "dh_inc"}
    /\ mouse' = "up"
    /\ button_pressed' = [button_pressed EXCEPT !.dh = FALSE]
    /\ button_press_count' = 0
    /\ UNCHANGED <<dh_entries, dh_timers, button_calls>>
    /\ DhButtonFrame

\* a pending callback of the DH buttons fires: continuous_dh_button_press
continuous_dh_button_press ==
    /\ ButtonBudgetLeft
    /\ \E k \in 1..Len(dh_timers) :
        LET step == dh_timers[k]
            count == button_press_count + 1
        IN  IF button_pressed.dh
            THEN /\ button_press_count' = count
                 /\ dh_entries' = change_dh_parameter_value(dh_entries, 1, 2,
                                                            AcceleratedStep(step, count))
                 /\ dh_timers' = Append(Without(dh_timers, k), step)
            ELSE /\ dh_timers' = Without(dh_timers, k)
                 /\ UNCHANGED <<button_press_count, dh_entries>>
    /\ button_calls' = [button_calls EXCEPT !.dh = @ + 1]
    /\ UNCHANGED <<mouse, button_pressed>>
    /\ DhButtonFrame

ButtonsNext ==
    \/ on_joint_angle_change_near_limit
    \/ start_button_press
    \/ stop_button_press
    \/ joint_timer_fires
    \/ start_dh_button_press
    \/ stop_dh_button_press
    \/ continuous_dh_button_press

(***************************************************************************)
(* The 3-DOF planar arm simulator (inverseKinemaitcs.py, RobotArmGUI): the *)
(* three link-length entries, their buttons and the reset.  Lengths are in *)
(* hundredths (DECIMAL_PLACES = 2).  The DoubleVar of an entry is the      *)
(* entry's textvariable, so it holds what is typed before any commit;     *)
(* clicking a ttk.Button leaves the keyboard focus where it is.            *)
(***************************************************************************)
MAX_REACH_SUM == 1000

MIN_LINK_LENGTH == 10

LENGTH_STEP == 10

initial_L_values == <<300, 300, 200>>

\* how many runs of increment_value_gui a behaviour holds
MaxArmCalls == 3

\* no length button is held
NoButtonHeld == [held |-> FALSE, index |-> 0, step |-> 0, timer |-> FALSE]

\* what the user leaves in a length entry: a length far above MAX_REACH_SUM, 0, or
\* a text DoubleVar.get() raises TclError for ("")
TypedLengths == {Numeric(5000), Numeric(0), NotANumber}

MaxOf(a, b) == IF a > b THEN a ELSE b

MinOf(a, b) == IF a < b THEN a ELSE b

Sum3(values) == values[1] + values[2] + values[3]

\* RobotArmGUI.ensure_initial_link_lengths_valid_gui on the values of the DoubleVars
ensure_initial_link_lengths_valid_gui(values) ==
    LET temp == [i \in 1..3 |-> MaxOf(values[i], MIN_LINK_LENGTH)]
        excess == Sum3(temp) - MAX_REACH_SUM
        reducible == Sum3([i \in 1..3 |-> temp[i] - MIN_LINK_LENGTH])
    IN  IF excess > 0 /\ reducible > 0
        THEN [i \in 1..3 |->
                 MaxOf(MIN_LINK_LENGTH,
                       temp[i] - ((temp[i] - MIN_LINK_LENGTH) * excess) \div reducible)]
        ELSE temp

ArmInit ==
    /\ L_vars = [i \in 1..3 |->
                    Numeric(ensure_initial_link_lengths_valid_gui(initial_L_values)[i])]
    /\ last_valid_L_values = ensure_initial_link_lengths_valid_gui(initial_L_values)
    /\ entry_focus = 0
    /\ after_id = NoButtonHeld
    /\ arm_calls = 0

\* sum(self.L_vars[j].get() for j != length_index) raises TclError
OthersInvalid(vars_, length_index) ==
    \E j \in 1..3 : j # length_index /\ ~vars_[j].num

L_others_sum(vars_, length_index) ==
    Sum3([j \in 1..3 |-> IF j = length_index THEN 0 ELSE vars_[j].val])

\* max(MIN_LINK_LENGTH, min(value, max(MIN_LINK_LENGTH, MAX_REACH_SUM - L_others_sum)))
Clamped(value, others_sum) ==
    MaxOf(MIN_LINK_LENGTH,
          MinOf(value, MaxOf(MIN_LINK_LENGTH, MAX_REACH_SUM - others_sum)))

\* RobotArmGUI._sync_robot_params_from_gui on the lengths: every DoubleVar that
\* reads as a number is copied into _last_valid_L_values (and into the robot), any
\* other is set from _last_valid_L_values
SyncRobotParams(vars_, last_valid) ==
    [vars |-> [i \in 1..3 |-> IF vars_[i].num THEN vars_[i] ELSE Numeric(last_valid[i])],
     last_valid |-> [i \in 1..3 |-> IF vars_[i].num THEN vars_[i].val ELSE last_valid[i]]]

\* var.set(round(self._last_valid_L_values[length_index], DECIMAL_PLACES))
RestoreLastValid(vars_, last_valid, length_index) ==
    [vars_ EXCEPT ![length_index] = Numeric(last_valid[length_index])]

\* RobotArmGUI.on_entry_change_gui for the length entry length_index, with the
\* parameter_changed_callback it calls: the DoubleVars and the cache it leaves
OnEntryChange(vars_, last_valid, length_index) ==
    IF ~vars_[length_index].num
    THEN SyncRobotParams(RestoreLastValid(vars_, last_valid, length_index), last_valid)
    ELSE IF vars_[length_index].val = 0
    THEN [vars |-> RestoreLastValid(vars_, last_valid, length_index),
          last_valid |-> last_valid]
    ELSE IF OthersInvalid(vars_, length_index)
    THEN SyncRobotParams(RestoreLastValid(vars_, last_valid, length_index), last_valid)
    ELSE SyncRobotParams(
             [vars_ EXCEPT ![length_index] =
                 Numeric(Clamped(vars_[length_index].val, L_others_sum(vars_, length_index)))],
             last_valid)

\* RobotArmGUI.increment_value_gui for a length: an uncaught TclError from the sum
\* over the other DoubleVars leaves everything as it was
IncrementValue(vars_, last_valid, step, length_index) ==
    LET current_val == IF vars_[length_index].num THEN vars_[length_index].val
                       ELSE last_valid[length_index]
    IN  IF OthersInvalid(vars_, length_index)
        THEN [vars |-> vars_, last_valid |-> last_valid]
        ELSE SyncRobotParams(
                 [vars_ EXCEPT ![length_index] =
                     Numeric(Clamped(current_val + step, L_others_sum(vars_, length_index)))],
                 last_valid)

ArmFrame == UNCHANGED <<coreVars, guiVars, buttonVars>>

\* a key pressed in the length entry that has the focus: validate_float lets the
\* text through and no handler runs
type_length ==
    /\ entry_focus # 0
    /\ \E text \in TypedLengths : L_vars' = [L_vars EXCEPT ![entry_focus] = text]
    /\ UNCHANGED <<last_valid_L_values, entry_focus, after_id, arm_calls>>
    /\ ArmFrame

\* <Return> in the length entry that has the focus: on_entry_change_gui
entry_return ==
    /\ entry_focus # 0
    /\ LET left == OnEntryChange(L_vars, last_valid_L_values, entry_focus)
       IN  /\ L_vars' = left.vars
           /\ last_valid_L_values' = left.last_valid
    /\ UNCHANGED <<entry_focus, after_id, arm_calls>>
    /\ ArmFrame

\* the focus moves to another length entry or away from them: <FocusOut> on the
\* entry that had it runs on_entry_change_gui
move_focus ==
    /\ \E to \in 0..3 :
        /\ to # entry_focus
        /\ entry_focus' = to
    /\ LET left == IF entry_focus = 0
                   THEN [vars |-> L_vars, last_valid |-> last_valid_L_values]
                   ELSE OnEntryChange(L_vars, last_valid_L_values, entry_focus)
       IN  /\ L_vars' = left.vars
           /\ last_valid_L_values' = left.last_valid
    /\ UNCHANGED <<after_id, arm_calls>>
    /\ ArmFrame

\* the sum over the other DoubleVars raises before the timer is scheduled
TimerScheduled(length_index) == ~OthersInvalid(L_vars, length_index)

\* <ButtonPress-1> on the increment or decrement button of a length:
\* start_continuous_change
start_continuous_change ==
    /\ ~after_id.held
    /\ arm_calls < MaxArmCalls
    /\ \E index \in 1..3, step \in {-LENGTH_STEP, LENGTH_STEP} :
        LET left == IncrementValue(L_vars, last_valid_L_values, step, index)
        IN  /\ L_vars' = left.vars
            /\ last_valid_L_values' = left.last_valid
            /\ after_id' = [held |-> TRUE, index |-> index, step |-> step,
                            timer |-> TimerScheduled(index)]
    /\ arm_calls' = arm_calls + 1
    /\ UNCHANGED entry_focus
    /\ ArmFrame

\* the timer of _after_id fires: start_continuous_change again
continuous_change_timer ==
    /\ after_id.timer
    /\ arm_calls < MaxArmCalls
    /\ LET left == IncrementValue(L_vars, last_valid_L_values, after_id.step, after_id.index)
       IN  /\ L_vars' = left.vars
           /\ last_valid_L_values' = left.last_valid
    /\ after_id' = [after_id EXCEPT !.timer = TimerScheduled(after_id.index)]
    /\ arm_calls' = arm_calls + 1
    /\ UNCHANGED entry_focus
    /\ ArmFrame

\* <ButtonRelease-1> on the held button: stop_continuous_change, then the button's
\* command, increment_value_gui
stop_continuous_change ==
    /\ after_id.held
    /\ arm_calls < MaxArmCalls
    /\ LET left == IncrementValue(L_vars, last_valid_L_values, after_id.step, after_id.index)
       IN  /\ L_vars' = left.vars
           /\ last_valid_L_values' = left.last_valid
    /\ after_id' = NoButtonHeld
    /\ arm_calls' = arm_calls + 1
    /\ UNCHANGED entry_focus
    /\ ArmFrame

\* RobotArmGUI.reset_simulation
reset_simulation ==
    /\ ~after_id.held
    /\ L_vars' = [i \in 1..3 |->
                     Numeric(ensure_initial_link_lengths_valid_gui(initial_L_values)[i])]
    /\ last_valid_L_values' = ensure_initial_link_lengths_valid_gui(initial_L_values)
    /\ UNCHANGED <<entry_focus, after_id, arm_calls>>
    /\ ArmFrame

ArmNext ==
    \/ type_length
    \/ entry_return
    \/ move_focus
    \/ start_continuous_change
    \/ continuous_change_timer
    \/ stop_continuous_change
    \/ reset_simulation

Init == CoreInit /\ GuiInit /\ ButtonsInit /\ ArmInit

Next ==
    \/ on_target_change
    \/ on_joint_angle_change
    \/ on_robot_type_change
    \/ on_dof_change
    \/ reset_to_default
    \/ load_yaml_parameters
    \/ load_preset_robot
    \/ calculate_inverse_kinematics
    \/ select_ik_solution
    \/ run_goal_oriented_simulation
    \/ animate_step

\* the GUI: user input, the IK goal-directed runs and their animation timer
Spec == Init /\ [][Next]_vars

\* the GUI with the Tk event loop running: a pending root.after timer fires
SpecFair == Spec /\ WF_vars(animate_step)

\* calls into the kinematics core and the planning functions, one at a time
SpecCore == Init /\ [][CoreNext]_vars

\* the press-and-hold buttons of main.py: presses, releases and timer callbacks
SpecButtons == Init /\ [][ButtonsNext]_vars

\* the planar arm simulator: typing, commits, length buttons and reset
SpecArm == Init /\ [][ArmNext]_vars

(***************************************************************************)
(* Properties of trajectory validation and path planning                   *)
(***************************************************************************)
\* a step breaks a hard rule: some joint angle outside its [min, max] limit, or some
\* link position lower than 0.02 m under the ground plane
StepBreaksHardRule(dh_params, q) ==
    \/ \E j \in 1..Len(q) :
          \/ q[j] < get_joint_limits(j - 1)[1] * TicksPerDeg
          \/ q[j] > get_joint_limits(j - 1)[2] * TicksPerDeg
    \/ \E k \in 0..Min(Len(dh_params), Len(q)) :
          forward_kinematics(SubSeq(dh_params, 1, k), SubSeq(q, 1, k)).p[3] < -200

HardSteps(dh_params, trajectory) ==
    {i \in 1..Len(trajectory) : StepBreaksHardRule(dh_params, trajectory[i])}

FirstHardStep(dh_params, trajectory) ==
    CHOOSE i \in HardSteps(dh_params, trajectory) :
        \A k \in HardSteps(dh_params, trajectory) : i <= k

Validated == call.fn = "validate_trajectory_path"

\* C1: validate_trajectory_path returns valid = False exactly when some step has a
\* joint angle outside its limits or a link position below the -0.02 m threshold; the
\* reason then names the first such step, and no step from it on is examined (none of
\* them contributes a warning).
C1_ValidationAbortsAtFirstHardViolation ==
    Validated =>
        LET hard == HardSteps(call.dh_params, call.trajectory)
        IN  /\ ret.valid = (hard = {})
            /\ hard = {} => ret.reason = NoReason
            /\ hard # {} =>
                 /\ ret.reason.step = FirstHardStep(call.dh_params, call.trajectory)
                 /\ \A n \in 1..Len(ret.warnings) : ret.warnings[n] < ret.reason.step

\* a trajectory whose first step passes with a singularity warning, whose second step
\* hits the ground and whose third step is singular but never examined
C1_Witness ==
    /\ Validated
    /\ Len(call.trajectory) = 3
    /\ ~ret.valid
    /\ ret.reason.kind = "ground"
    /\ ret.reason.step = 2
    /\ ret.warnings = <<1>>
    /\ call.jac[3] = JacSmallDet

\* the Jacobian analysis of step i reports a singularity (|det| < 1e-6 or cond > 100)
\* and the Jacobian could be computed
ReportsSingular(dh_params, q, jacInfo) ==
    /\ Len(q) <= Len(dh_params)
    /\ (jacInfo.det < 10 /\ jacInfo.det > -10) \/ jacInfo.cond > 100

\* C3: singularity proximity never blocks validation: whatever check_singularity
\* reports at each step (and when the Jacobian computation raises), valid and reason
\* are those of the same trajectory with no step reported singular, and the warnings
\* are exactly the steps before the failing step (all steps when valid) that are
\* reported singular, one warning each, in order.
C3_SingularityNeverBlocks ==
    Validated =>
        LET tr == call.trajectory
            dh == call.dh_params
            examined == IF ret.valid THEN Len(tr) ELSE ret.reason.step - 1
            warned == {i \in 1..examined : ReportsSingular(dh, tr[i], call.jac[i])}
            quiet == validate_trajectory_path(tr, dh, [i \in 1..Len(tr) |-> JacRegular])
        IN  /\ ret.valid = quiet.valid
            /\ ret.reason = quiet.reason
            /\ Len(ret.warnings) = Cardinality(warned)
            /\ \A n \in 1..Len(ret.warnings) : ret.warnings[n] \in warned
            /\ \A n \in 1..(Len(ret.warnings) - 1) : ret.warnings[n] < ret.warnings[n + 1]

\* a valid three-step trajectory with two singular steps (one by determinant, one by
\* condition number) and a regular step between them
C3_Witness ==
    /\ Validated
    /\ Len(call.trajectory) = 3
    /\ ret.valid
    /\ ret.warnings = <<1, 3>>
    /\ call.jac[1] = JacSmallDet
    /\ call.jac[2] = JacRegular
    /\ call.jac[3] = JacIllConditioned

\* validation of a joint vector longer than the chain: the Jacobian computation
\* raises at every step, the result is valid and carries no warning
C3_WitnessJacobianRaises ==
    /\ Validated
    /\ call.dh_params = Dh1Short
    /\ Len(call.trajectory) = 2
    /\ call.jac[1] = JacSmallDet
    /\ ret.valid
    /\ ret.warnings = <<>>

Planned == call.fn = "plan_path_to_goal"

\* the result validate_trajectory_path gave inside the plan_path_to_goal call
PlanValidation ==
    validate_trajectory_path(
        PlannedTrajectory(call.plan.start_angles, call.plan.target_angles),
        call.plan.dh_params, call.jac)

RunPaths ==
    {<<"Idle">>,
     <<"Planning", "Failed">>,
     <<"Planning", "Validating", "Failed">>,
     <<"Planning", "Validating", "Executing">>,
     <<"Planning", "Validating", "Executing", "Failed">>,
     <<"Planning", "Validating", "Executing", "Completed">>}

\* the run ended in Failed before it reached Executing
FailedBeforeExecuting ==
    run_log \in {<<"Planning", "Failed">>, <<"Planning", "Validating", "Failed">>}

\* C4: a goal-directed run follows Idle -> Planning -> Validating -> Executing ->
\* Completed/Failed.  While simulation_running is set the controls are disabled, the
\* run has passed Planning and Validating, and the path being animated is a planned
\* path of n_steps + 1 steps none of which breaks a joint limit or the ground
\* threshold; the controls are disabled only while a run executes; a run that failed
\* before Executing has left simulation_running unset and the controls enabled.
C4_ExecutingOnlyAfterValidPlan ==
    /\ run_log \in RunPaths
    /\ simulation_running =>
         /\ ~controls_enabled
         /\ animation.pending
         /\ run_log = <<"Planning", "Validating", "Executing">>
         /\ animation.step = 1 =>
              /\ Len(animation.trajectory) = n_steps + 1
              /\ HardSteps(dh_entries, animation.trajectory) = {}
    /\ ~controls_enabled => simulation_running
    /\ FailedBeforeExecuting =>
         /\ ~simulation_running
         /\ controls_enabled
         /\ ~animation.pending

\* a run in the Inverse mode that has just entered Executing with its first step
C4_Witness ==
    /\ simulation_running
    /\ ~controls_enabled
    /\ animation.step = 1
    /\ robot_type = "Inverse"
    /\ ik_solutions # <<>>

\* a run whose planned path failed validation: it starts at a second joint angle
\* beyond its limit
C4_WitnessValidationFails ==
    /\ run_log = <<"Planning", "Validating", "Failed">>
    /\ joint_angles = <<0, Radians(136)>>
    /\ ~simulation_running
    /\ controls_enabled

\* a run for which no target configuration was found
C4_WitnessNoTarget ==
    /\ run_log = <<"Planning", "Failed">>
    /\ ~simulation_running
    /\ controls_enabled

\* C11: whatever the user did (DOF changes, YAML and preset loads, resets, IK
\* calculations, runs that completed or failed), self.joint_angles has current_dof
\* entries and so has the DH table get_current_dh_params reads; the IK solutions on
\* display and the steps of the path being animated have current_dof joints too, so
\* forward kinematics and IK are called with a chain and a vector of equal length.
C11_JointVectorMatchesDof ==
    /\ Len(joint_angles) = current_dof
    /\ Len(dh_entries) = current_dof
    /\ \A k \in 1..Len(ik_solutions) : Len(ik_solutions[k]) = current_dof
    /\ animation.pending =>
         \A k \in 1..Len(animation.trajectory) :
            Len(animation.trajectory[k]) = current_dof

\* a completed run of a two-joint chain that was loaded as a preset or from YAML
C11_Witness ==
    /\ run_log = <<"Planning", "Validating", "Executing", "Completed">>
    /\ current_dof = 2
    /\ dh_entries \in {Dh2Planar, Dh2Tilted}

(***************************************************************************)
(* Properties of the multi-start IK search                                 *)
(***************************************************************************)
Searched == call.fn = "find_multiple_ik_solutions"

\* C12 (as claimed): the guesses of the multi-start search are a function of its
\* inputs: two calls of generate_initial_guesses with the same current configuration
\* and DOF (and no other input: the random guesses come from an explicit seeded
\* source) build the same sequence of initial guesses.
C12_SameInputsSameGuesses ==
    call.fn = "generate_initial_guesses" => ret.first = ret.second

\* C5: every solution in the list find_multiple_ik_solutions returns reproduces the
\* target position under forward kinematics within 5 mm, and every joint angle of it
\* is inside that joint's limits.
C5_SolutionsWithinToleranceAndLimits ==
    Searched =>
        \A n \in 1..Len(ret.solutions) :
            LET q == ret.solutions[n]
                p == forward_kinematics(call.dh_params, q).p
            IN  /\ SumSq([i \in 1..3 |-> call.target_pos_m[i] - p[i]]) <= 50 * 50
                /\ \A j \in 1..Len(q) :
                      /\ q[j] >= get_joint_limits(j - 1)[1] * TicksPerDeg
                      /\ q[j] <= get_joint_limits(j - 1)[2] * TicksPerDeg

\* a search of the one-joint chain from a first guess outside the limits that kept
\* one solution, accepted from a later guess
C5_Witness ==
    /\ Searched
    /\ call.dh_params = Dh1
    /\ call.initial_guesses[1] = <<Radians(200)>>
    /\ ret.solutions = << <<0>> >>
    /\ ret.first_accepted > 1

\* two solutions are duplicates: every corresponding joint differs by less than 5
\* degrees
Duplicates(a, b) ==
    \A j \in 1..Min(Len(a), Len(b)) : a[j] - b[j] < 5 * TicksPerDeg
                                      /\ b[j] - a[j] < 5 * TicksPerDeg

\* C6: the list find_multiple_ik_solutions returns never holds more than 3 solutions,
\* and no two solutions in it are duplicates.
C6_AtMostThreeDistinctSolutions ==
    Searched =>
        /\ Len(ret.solutions) <= 3
        /\ \A m \in 1..Len(ret.solutions), n \in 1..Len(ret.solutions) :
              m < n => ~Duplicates(ret.solutions[m], ret.solutions[n])

\* a search that collected three solutions and left the loop with guesses untried
C6_Witness ==
    /\ Searched
    /\ Len(ret.solutions) = 3
    /\ ret.attempts < Len(call.initial_guesses)

\* C7 (as claimed): the search stops at the first guess that produces an accepted
\* solution, and no later guess is attempted; otherwise it tries every guess.
C7_StopsAtFirstAcceptedGuess ==
    Searched =>
        IF ret.first_accepted # 0
        THEN ret.attempts = ret.first_accepted
        ELSE ret.attempts = Len(call.initial_guesses)

\* C7 (amended): the search stops early only once three distinct accepted solutions
\* are in the list, right at the guess that gave the third one; with fewer than
\* three solutions it has tried every guess of the sequence, also the guesses after
\* one that produced an accepted solution.
C7_StopsOnlyAtThreeSolutions ==
    Searched =>
        /\ ret.attempts <= Len(call.initial_guesses)
        /\ IF Len(ret.solutions) >= 3
           THEN ret.attempts = ret.last_kept
           ELSE ret.attempts = Len(call.initial_guesses)

\* the first guess gave an accepted solution and every guess was tried nevertheless
C7_Witness ==
    /\ Searched
    /\ ret.first_accepted = 1
    /\ Len(ret.solutions) \in {1, 2}
    /\ ret.attempts = Len(call.initial_guesses)

\* C19: the search tries the guesses in the fixed order current configuration,
\* all-zero, elbow-up and elbow-down (+90 and -90 degrees on joint 2, for two joints
\* or more), then three random guesses of angles between -90 and 90 degrees: a budget
\* of 5 guesses for one joint and of 7 otherwise.  It never tries more, it leaves
\* guesses untried only when it has collected three solutions, and a guess on which
\* inverse_kinematics raises is skipped: the search goes on with the next guess.
C19_FixedGuessBudget ==
    Searched =>
        LET guesses == call.initial_guesses
            dof == Len(call.dh_params)
            zeros == [j \in 1..dof |-> 0]
            budget == IF dof = 1 THEN 5 ELSE 7
        IN  /\ Len(guesses) = budget
            /\ guesses[1] = call.joint_angles
            /\ guesses[2] = zeros
            /\ dof >= 2 => /\ guesses[3] = [zeros EXCEPT ![2] = 90 * TicksPerDeg]
                           /\ guesses[4] = [zeros EXCEPT ![2] = -90 * TicksPerDeg]
            /\ \A k \in (budget - 2)..budget :
                /\ Len(guesses[k]) = dof
                /\ \A j \in 1..dof : /\ -90 * TicksPerDeg <= guesses[k][j]
                                      /\ guesses[k][j] <= 90 * TicksPerDeg
            /\ ret.attempts <= budget
            /\ ret.skipped <= ret.attempts
            /\ ret.attempts < budget => /\ Len(ret.solutions) = 3
                                        /\ ret.last_kept = ret.attempts

\* a search of the two-joint chain in which inverse_kinematics raised on every guess:
\* all seven guesses were tried
C19_Witness ==
    /\ Searched
    /\ Len(call.dh_params) = 2
    /\ ret.skipped = 7
    /\ ret.attempts = 7
    /\ ret.solutions = <<>>

(***************************************************************************)
(* Properties of the IK failure analysis and of inverse_kinematics         *)
(***************************************************************************)
Analyzed == call.fn = "analyze_ik_failure"

\* the sum of |a| over the links: the chain's max reach
RECURSIVE SumAbsLinks(_)
SumAbsLinks(dh_params) ==
    IF dh_params = <<>> THEN 0
    ELSE Abs(Head(dh_params)[1]) + SumAbsLinks(Tail(dh_params))

\* the longest link
RECURSIVE MaxAbsLink(_)
MaxAbsLink(dh_params) ==
    IF dh_params = <<>> THEN 0
    ELSE Max(Abs(Head(dh_params)[1]), MaxAbsLink(Tail(dh_params)))

\* the radius inside which the chain cannot fold back: the minimum reach gap
MinReachGap(dh_params) == Max(0, 2 * MaxAbsLink(dh_params) - SumAbsLinks(dh_params))

\* a chain that moves in the plane z = 0
PlanarChain(dh_params) ==
    \A i \in 1..Len(dh_params) : dh_params[i][2] = 0 /\ dh_params[i][3] = 0

\* no configuration of the planar chain reaches the target, so IK yields no solution
OutOfReach(dh_params, target_cm) ==
    /\ PlanarChain(dh_params)
    /\ \/ target_cm[3] # 0
       \/ SumSq(target_cm) > SumAbsLinks(dh_params) * SumAbsLinks(dh_params)
       \/ SumSq(target_cm) < MinReachGap(dh_params) * MinReachGap(dh_params)

\* C8 (as claimed): when IK yields no solution the failure is reported as too far
\* exactly when the target distance exceeds the max reach (sum of |a|), as too close
\* exactly when it is below the minimum reach gap, and as no convergence otherwise.
C8_FailureClassifiedByReach ==
    (Analyzed /\ OutOfReach(call.dh_params, call.target_cm)) =>
        LET dist2 == SumSq(call.target_cm)
            reach == SumAbsLinks(call.dh_params)
            gap == MinReachGap(call.dh_params)
        IN  /\ (ret.verdict = "too_far") = (dist2 > reach * reach)
            /\ (ret.verdict = "too_close") = (dist2 < gap * gap)
            /\ (ret.verdict = "constraints") = (dist2 <= reach * reach /\ dist2 >= gap * gap)

\* C13 (as claimed): for a chain and joint angles within the limits,
\* inverse_kinematics on the position forward_kinematics gives for them, without a
\* target orientation and with the angles as initial guess, returns a solution whose
\* forward-kinematics position is within 5 mm of that position.  Which point the
\* optimizers converge to is open in the model, so the property asks for the least
\* the claim needs: such a solution is among the results the call can return.
C13_RoundTripFindsSolution ==
    call.fn = "round_trip" =>
        \E r \in ret.results :
            /\ r.kind = "solution"
            /\ SumSq([i \in 1..3 |->
                        forward_kinematics(call.dh_params, r.q).p[i] - ret.target[i]])
                 <= (position_tolerance_mm * 10) * (position_tolerance_mm * 10)

(***************************************************************************)
(* Properties of the trajectory planner                                    *)
(***************************************************************************)
\* C14 (as claimed): for any start and end, duration T > 0 and step dt > 0, the
\* first sample of plan_quintic_trajectory is at t = 0 with the start position and
\* velocity 0, the last sample is at t = T with the end position and velocity 0, and
\* no sample lies beyond T.
C14_QuinticEndsAtDuration ==
    call.fn = "plan_quintic_trajectory" =>
        LET last == Len(ret.time)
        IN  /\ ret.time[1] = 0
            /\ ret.time[last] = call.duration
            /\ \A i \in 1..last : ret.time[i] <= call.duration
            /\ \A j \in 1..ret.n_joints :
                /\ ret.positions[1][j] = call.start_angles[j] * ret.den[1]
                /\ ret.velocities[1][j] = 0
                /\ ret.positions[last][j] = call.end_angles[j] * ret.den[last]
                /\ ret.velocities[last][j] = 0

\* the time of waypoint k: sum(durations[0..k-1]) for the waypoints indexed from 0
RECURSIVE WaypointTime(_, _)
WaypointTime(durations, k) ==
    IF k = 1 THEN 0 ELSE WaypointTime(durations, k - 1) + durations[k - 1]

\* C15 (as claimed): in the output of plan_multi_point_trajectory every interior
\* waypoint k has exactly one sample at the time sum(durations[0..k-1]), and the
\* joint positions of that sample are waypoint k.
C15_OneSampleAtEachWaypoint ==
    (call.fn = "plan_multi_point_trajectory" /\ ret.kind = "trajectory") =>
        \A k \in 2..(Len(call.waypoints) - 1) :
            LET at == {i \in 1..Len(ret.time) :
                          ret.time[i] = WaypointTime(call.durations, k)}
            IN  /\ Cardinality(at) = 1
                /\ \A i \in at : \A j \in 1..ret.n_joints :
                       ret.positions[i][j] = call.waypoints[k][j] * ret.den[i]

SmoothnessAnalysed == call.fn = "analyze_trajectory_smoothness"

\* the RMS jerks the analysis reports, joint by joint
ReportedRms == [j \in 1..Len(ret.joint_analysis) |-> ret.joint_analysis[j].rms_jerk]

\* every joint's rms_jerk is the root of the mean square of its jerks (in
\* hundredths, rounded down) and its score is 1 / (1 + rms_jerk)
JointScoresFromRmsJerk ==
    \A j \in 1..Len(ret.joint_analysis) :
        LET n == Len(call.trajectory_data.jerks)
            sum == SumSqColumn(call.trajectory_data.jerks, j, n)
            rms == ret.joint_analysis[j].rms_jerk
        IN  /\ rms * rms * n <= sum * 10000
            /\ sum * 10000 < (rms + 1) * (rms + 1) * n
            /\ ret.joint_analysis[j].smoothness_score = 100000000 \div (100 + rms)

\* C16 (as claimed): each joint gets the score 1 / (1 + rms_jerk), and the overall
\* smoothness is the arithmetic mean of the per-joint scores (up to the rounding of
\* the last digit).
C16_OverallIsMeanOfScores ==
    SmoothnessAnalysed =>
        /\ JointScoresFromRmsJerk
        /\ Abs(ret.overall_smoothness * Len(ret.joint_analysis)
               - SumSeq([j \in 1..Len(ret.joint_analysis) |->
                           ret.joint_analysis[j].smoothness_score]))
             <= Len(ret.joint_analysis)

\* C16 (amended): each joint gets the score 1 / (1 + rms_jerk), and the overall
\* smoothness is 1 / (1 + m) for m the arithmetic mean of the per-joint RMS jerks.
C16_OverallIsScoreOfMeanRms ==
    SmoothnessAnalysed =>
        /\ JointScoresFromRmsJerk
        /\ ret.overall_smoothness
             = 100000000 \div (100 + SumSeq(ReportedRms) \div Len(ReportedRms))

\* an analysis of two joints whose RMS jerks differ
C16_Witness ==
    /\ SmoothnessAnalysed
    /\ Len(ret.joint_analysis) = 2
    /\ ret.joint_analysis[1].rms_jerk = 0
    /\ ret.joint_analysis[2].rms_jerk = 300

\* C17 (as claimed): without a target orientation, or for a chain of fewer than three
\* joints, the IK objective and residual depend on the position error only: at a
\* configuration that reproduces the target position the objective and the
\* least-squares cost are zero (under the acceptance threshold), whatever the
\* orientation of the end effector.
C17_PositionOnlyWithoutOrientation ==
    (/\ call.fn = "objective_function"
     /\ call.target_orientation = NoOrientation \/ Len(call.dh_params) < 3
     /\ ret.pos_error_sq = 0)
        => ret.objective_accepts /\ ret.residual_accepts

\* C18 (as claimed): avoid_singularity falls back to the standard pseudo-inverse
\* only when the damped matrix is detected singular (a matrix J whose J^T J + lambda I
\* has no inverse); any other error, such as a Jacobian that is not a matrix, is
\* raised and not absorbed by the fallback.
C18_FallbackOnlyOnSingularMatrix ==
    call.fn = "avoid_singularity" =>
        /\ (ret.kind = "J_pinv" /\ ret.by = "pinv") =>
                /\ Len(call.jacobian.shape) = 2
                /\ call.damping_factor = 0
                /\ call.jacobian.rank < call.jacobian.shape[2]
        /\ Len(call.jacobian.shape) # 2 => ret.kind = "raise"

\* a planned path that was returned, between configurations within the joint limits
PlannedWithinLimits ==
    /\ Planned
    /\ ret.success
    /\ FirstJointOutside(call.plan.start_angles) = 0
    /\ FirstJointOutside(call.plan.target_angles) = 0

\* C20 (as claimed): a path planned between configurations within the joint limits has
\* exactly 41 configurations, the first equal to the start and the last equal to the
\* target.
C20_PathEndsAtTarget ==
    PlannedWithinLimits =>
        /\ Len(ret.trajectory) = 41
        /\ ret.trajectory[1] = call.plan.start_angles
        /\ ret.trajectory[41] = call.plan.target_angles

\* C20 (amended): a returned path between configurations within the joint limits has
\* exactly 41 configurations and starts at the start configuration; its last
\* configuration is the target up to a full turn per joint: it equals the target on
\* every joint whose target lies strictly between -180 and 180 degrees, and on a joint
\* whose target is +180 or -180 degrees it is +180 or -180 degrees.
C20_PathEndsAtTargetModuloTurn ==
    PlannedWithinLimits =>
        LET start == call.plan.start_angles
            target == call.plan.target_angles
            last == ret.trajectory[41]
        IN  /\ Len(ret.trajectory) = 41
            /\ ret.trajectory[1] = start
            /\ Len(last) = Len(start)
            /\ \A j \in 1..Len(start) :
                /\ (last[j] - target[j]) % Radians(360) = 0
                /\ -Radians(180) <= last[j] /\ last[j] <= Radians(180)
                /\ (-Radians(180) < target[j] /\ target[j] < Radians(180))
                       => last[j] = target[j]

\* a returned path from -90 degrees to a target of +180 degrees on joint 1: it wraps
\* the short way and ends at -180 degrees
C20_Witness ==
    /\ PlannedWithinLimits
    /\ call.plan.start_angles = <<Radians(-90), 0>>
    /\ call.plan.target_angles = <<Radians(180), Radians(90)>>
    /\ ret.trajectory[41] = <<Radians(-180), Radians(90)>>
    /\ ret.trajectory[21] = <<Radians(-135), Radians(45)>>

\* C21: the difference interpolate_angles scales is wrapped into the half-open
\* interval (-pi, pi]: it is greater than -pi, at most pi, and congruent to
\* angle2 - angle1 modulo a full turn.
C21_DifferenceWrappedHalfOpen ==
    call.fn = "interpolate_angles" =>
        /\ -Radians(180) < ret.diff
        /\ ret.diff <= Radians(180)
        /\ (ret.diff - (call.angle2 - call.angle1)) % Radians(360) = 0

\* an analytical inverse_kinematics call on a chain of two joints
PlanarCall ==
    /\ call.fn = "inverse_kinematics"
    /\ call.method = "analytical"
    /\ Len(call.dh_params) = 2

\* the planar distance of the call's target is above l1 + l2 or below |l1 - l2|
PlanarOutOfReach ==
    LET x == CmToUnits(call.target_cm[1])
        y == CmToUnits(call.target_cm[2])
        l1 == CmToUnits(call.dh_params[1][1])
        l2 == CmToUnits(call.dh_params[2][1])
    IN  \/ l1 + l2 < 0
        \/ x * x + y * y > (l1 + l2) * (l1 + l2)
        \/ x * x + y * y < (l1 - l2) * (l1 - l2)

\* C22: the 2-DOF closed-form solver returns None for a target whose planar distance
\* is above l1 + l2 or below |l1 - l2|; for every other target it evaluates the two
\* elbow branches and returns a configuration or None (it does not raise), and a
\* configuration it returns is within the joint limits.
C22_PlanarSolverReturnsBranchOrNone ==
    PlanarCall =>
        /\ PlanarOutOfReach => ret = None
        /\ ret.kind \in {"solution", "None"}
        /\ ret.kind = "solution" =>
               /\ Len(ret.q) = 2
               /\ FirstJointOutside(ret.q) = 0

\* C23: at most one simulation run is active at a time.  The animation timer is
\* pending exactly while simulation_running is true; a Run Simulation request made
\* while simulation_running is true only reports that a run is active and leaves
\* joint_angles, the running animation, the controls and the run's state unchanged;
\* and no step taken during a run starts a second timer chain: the pending timer
\* keeps its trajectory and goes on by at most one frame.
C23_AtMostOneRunActive ==
    /\ [](animation.pending <=> simulation_running)
    /\ [][/\ (last_message # "already_running" /\ last_message' = "already_running")
              => /\ simulation_running /\ simulation_running'
                 /\ UNCHANGED <<joint_angles, animation, controls_enabled, run_log,
                                simulation_state, ik_solutions, selected_ik_solution>>
          /\ (simulation_running /\ simulation_running')
              => /\ animation'.trajectory = animation.trajectory
                 /\ animation'.step \in {animation.step, animation.step + 1}]_vars

\* a run that was asked to start again before frame 18 and goes on from there
C23_Witness ==
    /\ simulation_running
    /\ last_message = "already_running"
    /\ animation.pending
    /\ animation.step = 19
    /\ Len(animation.trajectory) = n_steps + 1

\* C24: a run that has entered execution completes, given that the pending timer
\* fires: simulation_running returns to false.  It ends when the timer is called for
\* step 41, after the 41 frames of the trajectory, and at that moment the controls
\* are enabled again, joint_angles becomes the last configuration of the trajectory
\* and is_first_run becomes false.  The controls are disabled exactly while
\* simulation_running is true.
C24_RunCompletesAfterLastFrame ==
    /\ [](controls_enabled <=> ~simulation_running)
    /\ [][(simulation_running /\ ~simulation_running')
            => /\ Len(animation.trajectory) = n_steps + 1
               /\ animation.step = n_steps + 1
               /\ controls_enabled'
               /\ joint_angles' = animation.trajectory[n_steps + 1]
               /\ ~simulation_state'.is_first_run
               /\ ~animation'.pending]_vars
    /\ (simulation_running ~> ~simulation_running)

\* a completed run that moved the two-joint arm away from where it started
C24_Witness ==
    /\ run_log = <<"Planning", "Validating", "Executing", "Completed">>
    /\ ~simulation_running
    /\ controls_enabled
    /\ ~simulation_state.is_first_run
    /\ current_dof = 2
    /\ joint_angles # <<0, 0>>

\* a run has just started: the first frame is drawn and the timer is set for step 1
RunStarted ==
    /\ simulation_running
    /\ animation.pending
    /\ animation.step = 1
    /\ Len(animation.trajectory) = n_steps + 1

\* the distance (squared, in units of 0.1 mm) between the entered target position and
\* the position forward kinematics gives for the configuration the run moves to
RunTargetErrorSq ==
    LET reached == forward_kinematics(dh_entries, animation.trajectory[n_steps + 1]).p
        entered == TargetUnits(ParseOrZero(target_pos_entries))
    IN  SumSq([i \in 1..3 |-> entered[i] - reached[i]])

\* C25: the configuration a run moves to reproduces the entered target position within
\* 5 mm under forward kinematics with the current DH parameters, in Forward and in
\* Inverse mode.
C25_RunTargetReproducesEnteredTarget ==
    RunStarted => RunTargetErrorSq <= 50 * 50

C29_AnalyticalSolutionReachesTarget ==
    (/\ call.fn = "inverse_kinematics"
     /\ call.method = "analytical"
     /\ Len(call.dh_params) \in {2, 3}
     /\ ret.kind = "solution")
    => LET reached == forward_kinematics(call.dh_params, ret.q).p
           target == TargetUnits(call.target_cm)
       IN  SumSq([i \in 1..3 |-> target[i] - reached[i]]) <= 50 * 50

\* the pending repeat callbacks of one press-and-hold button
PendingFor(timers, direction) == Cardinality({k \in 1..Len(timers) : timers[k] = direction})

\* C27: for each press-and-hold joint or DH button at most one repeat timer callback
\* is pending at any time, and between a release and the next press no handler
\* changes the joint angle or the DH entry, for every interleaving of press, release
\* and timer events.
C27_OneRepeatTimerPerButton ==
    /\ [](\A direction \in {-1, 1} :
            /\ PendingFor(joint_timers, direction) <= 1
            /\ PendingFor(dh_timers, direction) <= 1)
    /\ [][(mouse = "up" /\ mouse' = "up" /\ button_calls' # button_calls)
            => UNCHANGED <<joint_angles, dh_entries>>]_vars

\* the release-to-press half of C27 alone: a callback that fires after the release
\* changes nothing
C27_NoIncrementAfterRelease ==
    [][(mouse = "up" /\ mouse' = "up" /\ button_calls' # button_calls)
        => UNCHANGED <<joint_angles, dh_entries>>]_vars

\* the direction of the joint-button handler that runs in a step
StepDirection ==
    IF mouse = "up" /\ mouse' = "joint_dec" THEN -1
    ELSE IF mouse = "up" /\ mouse' = "joint_inc" THEN 1
    ELSE Head(joint_timers)

\* the handler of the step found button_pressed[0] set (a press sets it itself)
StepActive == (mouse = "up" /\ mouse' # "up") \/ button_pressed.joint

\* the callbacks that stay pending when the handler of the step returns early
StepPending == IF mouse = "up" /\ mouse' # "up" THEN joint_timers ELSE Tail(joint_timers)

\* C28: every joint angle the press-and-hold joint buttons write lies within the
\* joint's limits; a 1-degree step that would leave them is not applied: the stored
\* angle (and the entry showing it) keeps its value, button_pressed is cleared and
\* no callback is scheduled.
C28_JointButtonsRejectOutOfRange ==
    [][button_calls'.joint # button_calls.joint =>
        LET new_value == joint_angles[1] + StepDirection * TicksPerDeg
            min_limit == Radians(get_joint_limits(0)[1])
            max_limit == Radians(get_joint_limits(0)[2])
        IN  /\ joint_angles' # joint_angles
                => /\ joint_angles'[1] = new_value
                   /\ min_limit <= joint_angles'[1]
                   /\ joint_angles'[1] <= max_limit
            /\ (StepActive /\ (new_value < min_limit \/ new_value > max_limit))
                => /\ joint_angles' = joint_angles
                   /\ ~button_pressed'.joint
                   /\ joint_timers' = StepPending]_vars

\* the increment button is held at 180 degrees: the step to 181 was rejected
C28_Witness ==
    /\ joint_angles = <<Radians(180)>>
    /\ mouse = "joint_inc"
    /\ ~button_pressed.joint
    /\ joint_timers = <<>>
    /\ button_calls.joint = 2

\* C30: in the planar arm simulator every link length is at least MIN_LINK_LENGTH and
\* the three lengths sum to at most MAX_REACH_SUM, after any sequence of increments,
\* decrements, entry commits and resets: the lengths the robot object is given
\* (_last_valid_L_values) and, when no entry is being edited, the DoubleVars.
C30_LinkLengthsWithinReach ==
    /\ \A i \in 1..3 : last_valid_L_values[i] >= MIN_LINK_LENGTH
    /\ Sum3(last_valid_L_values) <= MAX_REACH_SUM
    /\ entry_focus = 0
        => /\ \A i \in 1..3 : L_vars[i].num /\ L_vars[i].val >= MIN_LINK_LENGTH
           /\ Sum3([i \in 1..3 |-> L_vars[i].val]) <= MAX_REACH_SUM

\* C9 (as claimed): inverse_kinematics with method 'numerical' or 'analytical' returns
\* a joint configuration or None, whatever the chain and the target; the only
\* exception it raises is ValueError, for an unknown method name.
C9_IKRaisesOnlyForUnknownMethod ==
    call.fn = "inverse_kinematics" =>
        IF call.method \in {"numerical", "analytical"}
        THEN ret.kind \in {"solution", "None"}
        ELSE ret = Raised("ValueError")

(***************************************************************************)
(* Properties of forward_kinematics                                        *)
(***************************************************************************)
\* C10 (as claimed): forward_kinematics fails with an input error whenever the chain
\* and the joint vector differ in length; it never returns a pose of a partial chain.
C10_FKRejectsLengthMismatch ==
    (call.fn = "forward_kinematics" /\ Len(call.dh_params) # Len(call.joint_angles))
        => ret.kind = "InputError"

====
